---- MODULE Spec2Model ----
(***************************************************************************)
(* RESTORE: configuration store (gen_utils/cnf_tools.py), model assembler  *)
(* (model_utils/initialisation.py) and the generic constraint library      *)
(* (model_utils/generic.py, model_generic/generic_constraints.py).         *)
(*                                                                         *)
(* The library functions are pure: every action below is one call of one   *)
(* function on the configuration held in the state, and `result` records   *)
(* the call and what it returned or raised.                                *)
(***************************************************************************)
EXTENDS Integers, FiniteSets, Sequences, TLC

VARIABLES
    params,   \* ConfigHandler.params : entity -> value-kind -> key -> cell
    fxe,      \* ConfigHandler.fxe    : the FiE / FoE incidence tables
    model,    \* the pyomo model built by init_model (sets and constraints)
    result    \* the last library call and its outcome

vars == <<params, fxe, model, result>>

(***************************************************************************)
(* Bounds of the model.                                                    *)
(***************************************************************************)
NumYears == 4      \* modelled years (configuration.py uses 30)
NumHours == 2      \* hour slices per day (configuration.py uses 24)
MaxLife  == 2      \* largest configured lifetime, in years

(***************************************************************************)
(* Program constants.                                                      *)
(***************************************************************************)
FirstYear == 1990
NDAYS     == 2

YEARS == FirstYear .. (FirstYear + NumYears - 1)
DAYS  == 0 .. (NDAYS - 1)
HOURS == 0 .. (NumHours - 1)

Entities  == {"conv_a", "conv_b", "dem_elec"}
Demands   == {"dem_elec"}                 \* the ids that start with "dem_"
EntityIds == Entities \cup {"conv_x"}     \* conv_x is in no sheet
Flows     == {"elec", "heat"}
Nodes     == {"CH"}

(***************************************************************************)
(* Python values.  A cell of the parameter table is a float: NaN when the  *)
(* spreadsheet cell is empty, a number otherwise.                          *)
(***************************************************************************)
NaN     == [t |-> "nan"]
Num(v)  == [t |-> "num", v |-> v]
None    == [t |-> "None"]
Bool(b) == [t |-> "bool", b |-> b]
PySet(S) == [t |-> "set", s |-> S]

isnan(value) == value = NaN

\* int(x) as python coerces a bool in an arithmetic comparison
AsInt(x) == IF x.t = "bool" THEN (IF x.b THEN 1 ELSE 0) ELSE x.v

\* the truth value python gives x in `if x` and `x and ...`
Truthy(x) == IF x.t = "bool" THEN x.b ELSE IF x.t = "num" THEN x.v # 0 ELSE FALSE

(***************************************************************************)
(* Outcomes of a call.                                                     *)
(***************************************************************************)
Return(v)  == [tag |-> "return", value |-> v]
Raise(exc) == [tag |-> "raise", exc |-> exc]
Skip       == [tag |-> "Skip"]
NoCall     == [op |-> "none"]

Raises(r) == r.tag = "raise"

(***************************************************************************)
(* ConfigHandler: params[entity_id][kind][key].  A python dict is a        *)
(* function; indexing it with a key outside its domain is a KeyError.      *)
(***************************************************************************)
HasKey(entity_id, kind, key) ==
    /\ entity_id \in DOMAIN params
    /\ key \in DOMAIN params[entity_id][kind]

check_cnf_value(entity_id, parameter) ==
    IF ~HasKey(entity_id, "configuration", parameter)
    THEN Raise("KeyError")
    ELSE LET value == params[entity_id]["configuration"][parameter]
         IN  Return(IF ~isnan(value) THEN value ELSE Bool(FALSE))

check_cnf(entity_id, parameter) ==
    IF ~HasKey(entity_id, "configuration", parameter)
    THEN Raise("KeyError")
    ELSE LET value == params[entity_id]["configuration"][parameter]
         IN  Return(Bool(~isnan(value)))

get_const(entity_id, parameter) ==
    IF ~HasKey(entity_id, "constant", parameter)
    THEN Raise("KeyError")
    ELSE LET value == params[entity_id]["constant"][parameter]
         IN  Return(IF ~isnan(value) THEN value ELSE None)

get_const_fxe_lenient(entity_id, parameter, flow) ==
    IF ~HasKey(entity_id, "constant_fxe", <<parameter, flow>>)
    THEN Return(None)
    ELSE LET value == params[entity_id]["constant_fxe"][<<parameter, flow>>]
         IN  Return(IF ~isnan(value) THEN value ELSE None)

get_const_fxe(entity_id, parameter, flow) ==
    IF ~HasKey(entity_id, "constant_fxe", <<parameter, flow>>)
    THEN Raise("KeyError")
    ELSE LET value == params[entity_id]["constant_fxe"][<<parameter, flow>>]
         IN  Return(IF ~isnan(value) THEN value ELSE None)

get_annual_lenient(entity_id, parameter, year) ==
    IF ~HasKey(entity_id, "annual", <<parameter, year>>)
    THEN Raise("KeyError")
    ELSE LET value == params[entity_id]["annual"][<<parameter, year>>]
         IN  Return(IF ~isnan(value) THEN value ELSE None)

get_annual(entity_id, parameter, year) ==
    IF ~HasKey(entity_id, "annual", <<parameter, year>>)
    THEN Raise("KeyError")
    ELSE LET value == params[entity_id]["annual"][<<parameter, year>>]
         IN  IF isnan(value) THEN Raise("ValueError") ELSE Return(value)

\* [i for i in entity_set if self.check_cnf(i, parameter)], one element at a
\* time; the first check_cnf that raises ends the comprehension.
RECURSIVE cnf_comprehension(_, _, _)
cnf_comprehension(todo, parameter, acc) ==
    IF todo = {} THEN Return(PySet(acc))
    ELSE LET i == CHOOSE i \in todo : TRUE
             c == check_cnf(i, parameter)
         IN  IF Raises(c) THEN c
             ELSE cnf_comprehension(todo \ {i}, parameter,
                                    IF Truthy(c.value) THEN acc \cup {i} ELSE acc)

build_cnf_set_all(entity_set, parameter) ==
    IF \E i \in entity_set : Raises(check_cnf(i, parameter))
    THEN Raise("KeyError")
    ELSE Return(PySet(entity_set))

build_cnf_set(entity_set, parameter) ==
    cnf_comprehension(entity_set, parameter, {})

(***************************************************************************)
(* Symbolic pyomo expressions.  A variable is named by its component and   *)
(* index; a linear expression is a set of terms num/den * var plus a       *)
(* constant; a constraint relates two expressions.                         *)
(***************************************************************************)
Term(v, num, den) == [var |-> v, num |-> num, den |-> den]
Lin(terms, const) == [terms |-> terms, const |-> const]
Sum(varset)       == Lin({Term(v, 1, 1) : v \in varset}, 0)
Constraint(lhs, op, rhs) == [tag |-> "constraint", lhs |-> lhs, op |-> op, rhs |-> rhs]

fin(f, e, y, d, h)  == [name |-> "fin", f |-> f, e |-> e, y |-> y, d |-> d, h |-> h]
fout(f, e, y, d, h) == [name |-> "fout", f |-> f, e |-> e, y |-> y, d |-> d, h |-> h]

(***************************************************************************)
(* Numbers.  Rates, load factors and day weights are fractions; a number   *)
(* is kept as numerator over denominator in lowest terms.                  *)
(***************************************************************************)
YEARSLICE == 1
TIMESLICE == 1

Ratio(n, d) == [t |-> "ratio", n |-> n, d |-> d]
NumOf(x) == IF x.t = "ratio" THEN x.n ELSE x.v
DenOf(x) == IF x.t = "ratio" THEN x.d ELSE 1

RECURSIVE GCD(_, _)
GCD(x, y) == IF y = 0 THEN x ELSE GCD(y, x % y)

Lowest(n, d) ==
    LET g == GCD(IF n < 0 THEN -n ELSE n, d)
    IN  Ratio(n \div g, d \div g)

\* x * y, reduced across before multiplying
Product(x, y) ==
    LET x0 == Lowest(NumOf(x), DenOf(y))
        y0 == Lowest(NumOf(y), DenOf(x))
    IN  Ratio(x0.n * y0.n, x0.d * y0.d)
\* x + y over the least common denominator
Plus(x, y) ==
    LET g == GCD(DenOf(x), DenOf(y))
    IN  Lowest(NumOf(x) * (DenOf(y) \div g) + NumOf(y) * (DenOf(x) \div g),
               (DenOf(x) \div g) * DenOf(y))
Quotient(x, k) == Product(x, Ratio(1, k))
AtLeastOne(x) == NumOf(x) >= DenOf(x)                     \* x >= 1
TermOf(v, x) == Term(v, NumOf(x), DenOf(x))

(***************************************************************************)
(* Incidence tables and the assembler (initialisation.py).  A table has    *)
(* entities as rows, flows as columns and a set of non-empty cells.        *)
(***************************************************************************)
get_flow_element_dict(io_df, by_element) ==
    IF by_element
    THEN [p \in {c[1] : c \in io_df.cells} |-> {c[2] : c \in {x \in io_df.cells : x[1] = p}}]
    ELSE [f \in {c[2] : c \in io_df.cells} |-> {c[1] : c \in {x \in io_df.cells : x[2] = f}}]

merge_dicts(dict1, dict2) ==
    [k \in (DOMAIN dict1) \cup (DOMAIN dict2) |->
        (IF k \in DOMAIN dict1 THEN dict1[k] ELSE {})
        \cup (IF k \in DOMAIN dict2 THEN dict2[k] ELSE {})]

ENTITIES == fxe.FiE.index \cup fxe.FoE.index
FLOWS    == fxe.FiE.columns \cup fxe.FoE.columns

_c_io_balance(m, flow_id, y, d, h) ==
    LET outflows_prev == {fout(fe[1], fe[2], y, d, h) : fe \in {x \in m.FoE : x[1] = flow_id}}
        inflows_next  == {fin(fe[1], fe[2], y, d, h) : fe \in {x \in m.FiE : x[1] = flow_id}}
    IN  IF outflows_prev = {} /\ inflows_next = {}
        THEN Raise("ValueError")      \* 0 == 0 is the python bool True
        ELSE Constraint(Sum(outflows_prev), "==", Sum(inflows_next))

\* {(f, e) for f in flows for e in d[f]}: d[f] is a KeyError for a flow
\* that get_flow_element_dict dropped
PairsOf(flows, d) ==
    IF \E f \in flows : f \notin DOMAIN d
    THEN Raise("KeyError")
    ELSE Return(PySet({fe \in flows \X UNION {d[f] : f \in DOMAIN d} : fe[2] \in d[fe[1]]}))

_init_sets ==
    LET entities  == ENTITIES
        flows     == FLOWS
        demands   == entities \cap Demands
        processes == entities \ demands
        capacity  == build_cnf_set(processes, "enable_capacity")
        f_in      == get_flow_element_dict(fxe.FiE, FALSE)
        f_out     == get_flow_element_dict(fxe.FoE, FALSE)
        f_inout_e == merge_dicts(f_out, f_in)
        FiE       == PairsOf(flows, f_in)
        FoE       == PairsOf(flows, f_out)
        FxE       == PairsOf(flows, f_inout_e)
    IN  IF Raises(capacity) THEN capacity
        ELSE IF Raises(FiE) THEN FiE
        ELSE IF Raises(FoE) THEN FoE
        ELSE IF Raises(FxE) THEN FxE
        ELSE Return([built |-> TRUE,
                     Y |-> YEARS, Y0 |-> {FirstYear}, D |-> DAYS,
                     H |-> HOURS, H0 |-> {0},
                     E |-> entities, F |-> flows,
                     Pros |-> processes, Caps |-> capacity.value.s,
                     FiE |-> FiE.value.s, FoE |-> FoE.value.s,
                     FxE |-> FxE.value.s])

\* pyo.Constraint(model.F, model.Y, model.D, model.H, rule=_c_io_balance)
c_io_balance_of(m) ==
    [i \in m.F \X m.Y \X m.D \X m.H |-> _c_io_balance(m, i[1], i[2], i[3], i[4])]

_day_share_leap(m, y, d) == Lowest(366, Cardinality(m.D))

\* initialisation._day_share
_day_share(m, y, d) == Lowest(365, Cardinality(m.D))

\* _init_variables: every variable starts free; fixed maps the variables
\* that .fix(value) pinned to their value
_init_variables == [v \in {} |-> Num(0)]

\* _init_parameters: model.YL, model.DL (mutable) and model.HL
_init_parameters(m) ==
    [YL |-> YEARSLICE,
     DL |-> [yd \in m.Y \X m.D |-> _day_share(m, yd[1], yd[2])],
     HL |-> TIMESLICE]

init_model ==
    LET sets == _init_sets
    IN  IF Raises(sets) THEN sets
        ELSE LET c == c_io_balance_of(sets.value)
                 p == _init_parameters(sets.value)
             IN  IF \E i \in DOMAIN c : Raises(c[i])
                 THEN Raise("ValueError")
                 ELSE Return([built |-> TRUE,
                     Y |-> sets.value.Y, Y0 |-> sets.value.Y0, D |-> sets.value.D,
                     H |-> sets.value.H, H0 |-> sets.value.H0,
                     E |-> sets.value.E, F |-> sets.value.F,
                     Pros |-> sets.value.Pros, Caps |-> sets.value.Caps,
                     FiE |-> sets.value.FiE, FoE |-> sets.value.FoE,
                     FxE |-> sets.value.FxE,
                     fixed |-> _init_variables,
                     YL |-> p.YL, DL |-> p.DL, HL |-> p.HL,
                     c_io_balance |-> c])

(***************************************************************************)
(* Capacity lifecycle constraints of model_utils/generic.py.  The capacity *)
(* variables are indexed by (node, entity, year); indexing one with a year *)
(* outside model.Y is a KeyError.                                          *)
(***************************************************************************)
ctot(n, e, y) == [name |-> "ctot", n |-> n, e |-> e, y |-> y]
cnew(n, e, y) == [name |-> "cnew", n |-> n, e |-> e, y |-> y]
cret(n, e, y) == [name |-> "cret", n |-> n, e |-> e, y |-> y]

\* DATA.check_cnf(e, "enable_capacity") and y > DATA.check_cnf(e, "enable_year")
\* `and` does not evaluate its right operand when the left one is false;
\* the comparison takes the boolean check_cnf returns as 0 or 1.
CapacityGate(e, y) ==
    LET cap == check_cnf(e, "enable_capacity")
        ey  == check_cnf(e, "enable_year")
    IN  IF Raises(cap) THEN cap
        ELSE IF ~Truthy(cap.value) THEN Return(Bool(FALSE))
        ELSE IF Raises(ey) THEN ey
        ELSE Return(Bool(y > AsInt(ey.value)))

c_cap_transfer(m, n, e, y) ==
    LET gate == CapacityGate(e, y)
    IN  IF Raises(gate) THEN gate
        ELSE IF gate.value.b
        THEN IF (y - 1) \notin m.Y THEN Raise("KeyError")
             ELSE LET total_capacity ==
                          Lin({Term(ctot(n, e, y - 1), 1, 1), Term(cnew(n, e, y), 1, 1),
                               Term(cret(n, e, y), -1, 1)}, 0)
                  IN  Constraint(Sum({ctot(n, e, y)}), "==", total_capacity)
        ELSE Skip

c_cap_retirement_sum(m, n, e, y) ==
    LET gate == CapacityGate(e, y)
        life == get_const(e, "lifetime")
        cnf_retired == get_annual(e, "initial_retired_capacity", y)
    IN  IF Raises(gate) THEN gate
        ELSE IF gate.value.b
        THEN IF Raises(life) THEN life
             ELSE IF life.value = None
             THEN Constraint(Sum({cret(n, e, y)}), "==", Lin({}, 0))
             ELSE IF Raises(cnf_retired) THEN cnf_retired
             ELSE IF life.value.v <= y - FirstYear
             THEN Constraint(Sum({cret(n, e, y)}), "==",
                             Lin({Term(cnew(n, e, y - life.value.v), 1, 1)},
                                 cnf_retired.value.v))
             ELSE Constraint(Sum({cret(n, e, y)}), "==", Lin({}, cnf_retired.value.v))
        ELSE Skip

c_cap_retirement_late(m, n, e, y) ==
    LET gate == CapacityGate(e, y)
        life == get_const(e, "lifetime")
        cnf_retired == get_annual(e, "initial_retired_capacity", y)
    IN  IF Raises(gate) THEN gate
        ELSE IF gate.value.b
        THEN IF Raises(life) THEN life
             ELSE IF life.value = None
             THEN Constraint(Sum({cret(n, e, y)}), "==", Lin({}, 0))
             ELSE IF life.value.v < y - FirstYear
             THEN Constraint(Sum({cret(n, e, y)}), "==", Sum({cnew(n, e, y - life.value.v)}))
             ELSE IF Raises(cnf_retired) THEN cnf_retired
             ELSE Constraint(Sum({cret(n, e, y)}), "==", Lin({}, cnf_retired.value.v))
        ELSE Skip

c_cap_retirement(m, n, e, y) ==
    LET gate == CapacityGate(e, y)
        life == get_const(e, "lifetime")
        first == CHOOSE y0 \in m.Y : \A y1 \in m.Y : y0 <= y1      \* model.Y.first()
        cnf_retired == get_annual(e, "initial_retired_capacity", y)
    IN  IF Raises(gate) THEN gate
        ELSE IF gate.value.b
        THEN IF Raises(life) THEN life
             ELSE IF life.value = None
             THEN Constraint(Sum({cret(n, e, y)}), "==", Lin({}, 0))
             ELSE IF life.value.v <= y - first
             THEN IF (y - life.value.v) \notin m.Y THEN Raise("KeyError")
                  ELSE Constraint(Sum({cret(n, e, y)}), "==",
                                  Sum({cnew(n, e, y - life.value.v)}))
             ELSE IF Raises(cnf_retired) THEN cnf_retired
             ELSE Constraint(Sum({cret(n, e, y)}), "==", Lin({}, cnf_retired.value.v))
        ELSE Skip

(***************************************************************************)
(* Share constraints of model_generic/generic_constraints.py.              *)
(***************************************************************************)
\* DATA.get_fxe: the flow-specific getter of the data handler; a missing
\* (parameter, flow) key raises, an empty cell is None
get_fxe(entity_id, parameter, flow, year) == get_const_fxe(entity_id, parameter, flow)

FinOfFlow(m, flow_id, y, d, h) ==
    {fin(fe[1], fe[2], y, d, h) : fe \in {x \in m.FiE : x[1] = flow_id}}
FinOfEntity(m, entity_id, y, d, h) ==
    {fin(fe[1], fe[2], y, d, h) : fe \in {x \in m.FiE : x[2] = entity_id}}
FoutOfFlow(m, flow_id, y, d, h) ==
    {fout(fe[1], fe[2], y, d, h) : fe \in {x \in m.FoE : x[1] = flow_id}}
FoutOfEntity(m, entity_id, y, d, h) ==
    {fout(fe[1], fe[2], y, d, h) : fe \in {x \in m.FoE : x[2] = entity_id}}

\* share * sum(total)
Scaled(share, total) == Lin({Term(v, share, 1) : v \in total}, 0)

ShareRuleUnguarded(share, value, op, total) ==
    IF Raises(share) THEN share
    ELSE IF share.value = None THEN Raise("TypeError")
    ELSE Constraint(Sum({value}), op, Scaled(share.value.v, total))

\* if share is not None: return value <op> share * total
\* return pyo.Constraint.Skip
ShareRule(share, value, op, total) ==
    IF Raises(share) THEN share
    ELSE IF share.value # None
    THEN Constraint(Sum({value}), op, Scaled(share.value.v, total))
    ELSE Skip

c_flow_in_share_equal(m, flow_id, entity_id, y, d, h) ==
    ShareRule(get_fxe(entity_id, "flow_in_share_equal", flow_id, y),
              fin(flow_id, entity_id, y, d, h), "==",
              FinOfFlow(m, flow_id, y, d, h))

c_flow_in_share_max(m, flow_id, entity_id, y, d, h) ==
    ShareRule(get_fxe(entity_id, "flow_in_share_max", flow_id, y),
              fin(flow_id, entity_id, y, d, h), "<=",
              FinOfFlow(m, flow_id, y, d, h))

c_flow_in_share_min(m, flow_id, entity_id, y, d, h) ==
    ShareRule(get_fxe(entity_id, "flow_in_share_min", flow_id, y),
              fin(flow_id, entity_id, y, d, h), ">=",
              FinOfFlow(m, flow_id, y, d, h))

c_flow_out_share_equal(m, flow_id, entity_id, y, d, h) ==
    ShareRule(get_fxe(entity_id, "flow_out_share_equal", flow_id, y),
              fout(flow_id, entity_id, y, d, h), "==",
              FoutOfFlow(m, flow_id, y, d, h))

c_flow_out_share_max(m, flow_id, entity_id, y, d, h) ==
    ShareRule(get_fxe(entity_id, "flow_out_share_max", flow_id, y),
              fout(flow_id, entity_id, y, d, h), "<=",
              FoutOfFlow(m, flow_id, y, d, h))

c_flow_out_share_min(m, flow_id, entity_id, y, d, h) ==
    ShareRule(get_fxe(entity_id, "flow_out_share_min", flow_id, y),
              fout(flow_id, entity_id, y, d, h), ">=",
              FoutOfFlow(m, flow_id, y, d, h))

c_input_share_equal(m, flow_id, entity_id, y, d, h) ==
    ShareRule(get_fxe(entity_id, "input_share_equal", flow_id, y),
              fin(flow_id, entity_id, y, d, h), "==",
              FinOfEntity(m, entity_id, y, d, h))

c_input_share_max(m, flow_id, entity_id, y, d, h) ==
    ShareRule(get_fxe(entity_id, "input_share_max", flow_id, y),
              fin(flow_id, entity_id, y, d, h), "<=",
              FinOfEntity(m, entity_id, y, d, h))

c_input_share_min(m, flow_id, entity_id, y, d, h) ==
    ShareRule(get_fxe(entity_id, "input_share_min", flow_id, y),
              fin(flow_id, entity_id, y, d, h), ">=",
              FinOfEntity(m, entity_id, y, d, h))

c_output_share_equal(m, flow_id, entity_id, y, d, h) ==
    ShareRule(get_fxe(entity_id, "output_share_equal", flow_id, y),
              fout(flow_id, entity_id, y, d, h), "==",
              FoutOfEntity(m, entity_id, y, d, h))

c_output_share_max(m, flow_id, entity_id, y, d, h) ==
    ShareRule(get_fxe(entity_id, "output_share_max", flow_id, y),
              fout(flow_id, entity_id, y, d, h), "==",
              FoutOfEntity(m, entity_id, y, d, h))

c_output_share_min(m, flow_id, entity_id, y, d, h) ==
    ShareRule(get_fxe(entity_id, "output_share_min", flow_id, y),
              fout(flow_id, entity_id, y, d, h), "==",
              FoutOfEntity(m, entity_id, y, d, h))

(***************************************************************************)
(* Configurations the store can be loaded with.  A slot of a sheet column  *)
(* is either missing (no row with that key) or a cell.                     *)
(***************************************************************************)
Missing == [t |-> "missing"]
Dict(slots) == [k \in {k \in DOMAIN slots : slots[k] # Missing} |-> slots[k]]

ShareParams ==
    {"flow_in_share_equal", "flow_in_share_max", "flow_in_share_min",
     "flow_out_share_equal", "flow_out_share_max", "flow_out_share_min",
     "input_share_equal", "input_share_max", "input_share_min",
     "output_share_equal", "output_share_max", "output_share_min"}

EqualParams == {"flow_in_share_equal", "flow_out_share_equal",
                "input_share_equal", "output_share_equal"}
MaxParams   == {"flow_in_share_max", "flow_out_share_max",
                "input_share_max", "output_share_max"}
MinParams   == ShareParams \ (EqualParams \cup MaxParams)

NoShares == [p \in ShareParams |-> Missing]

\* the rows of one entity: its two configuration options, its lifetime, its
\* input efficiency on elec, its share factors (the same on every flow), and
\* its two annual series
EntityTable(cap, ey, life, eff, share, capacity, retired) ==
    [configuration |-> Dict([p \in {"enable_capacity", "enable_year"} |->
                                IF p = "enable_capacity" THEN cap ELSE ey]),
     constant      |-> Dict([p \in {"lifetime"} |-> life]),
     constant_fxe  |-> Dict([pf \in ({"input_efficiency"} \cup ShareParams) \X Flows |->
                                IF pf[1] = "input_efficiency"
                                THEN (IF pf[2] = "elec" THEN eff ELSE Num(1))
                                ELSE share[pf[1]]]),
     annual        |-> Dict([py \in {"actual_capacity", "initial_retired_capacity"} \X YEARS |->
                                IF py[1] = "actual_capacity"
                                THEN capacity[py[2]] ELSE retired[py[2]]])]

\* annual series over the modelled years: no rows, all empty, all filled,
\* or filled except for one empty year
AnnualSeries(base) ==
    {[y \in YEARS |-> Missing], [y \in YEARS |-> NaN],
     [y \in YEARS |-> Num(base + (y - FirstYear))]}
    \cup {[y \in YEARS |-> IF y = hole THEN NaN ELSE Num(base + (y - FirstYear))] :
            hole \in {FirstYear, FirstYear + 1}}

Filled(base) == [y \in YEARS |-> Num(base + (y - FirstYear))]

PlainTable(cap) ==
    EntityTable(cap, Num(FirstYear), NaN, Num(1), NoShares, Filled(10), Filled(0))

NoTables == [FiE |-> [index |-> {}, columns |-> {}, cells |-> {}],
             FoE |-> [index |-> {}, columns |-> {}, cells |-> {}]]
NoModel  == [built |-> FALSE]
ModelRef == [t |-> "model"]

(***************************************************************************)
(* The store: conv_a takes every combination of missing, empty and filled  *)
(* rows; conv_b and dem_elec vary in enable_capacity only.                 *)
(***************************************************************************)
StoreTables ==
    {EntityTable(cap, ey, k, k, NoShares, capacity, Filled(0)) :
        cap \in {Missing, NaN, Num(1)}, ey \in {NaN, Num(FirstYear)},
        k \in {Missing, NaN, Num(MaxLife)},
        capacity \in AnnualSeries(10)}

InitStore ==
    /\ params \in {[e \in Entities |-> IF e = "conv_a" THEN ta
                                       ELSE IF e = "conv_b" THEN PlainTable(cb)
                                       ELSE PlainTable(NaN)] :
                      ta \in StoreTables, cb \in {NaN, Num(1)}}
    /\ fxe = NoTables
    /\ model = NoModel
    /\ result = NoCall

CheckCnf ==
    \E e \in EntityIds, p \in {"enable_capacity", "enable_year"} :
        /\ result' = [op |-> "check_cnf", entity_id |-> e, parameter |-> p,
                      ret |-> check_cnf(e, p)]
        /\ UNCHANGED <<params, fxe, model>>

GetConst ==
    \E e \in EntityIds, p \in {"lifetime"} :
        /\ result' = [op |-> "get_const", entity_id |-> e, parameter |-> p,
                      ret |-> get_const(e, p)]
        /\ UNCHANGED <<params, fxe, model>>

GetConstFxe ==
    \E e \in EntityIds, p \in {"input_efficiency"}, f \in Flows :
        /\ result' = [op |-> "get_const_fxe", entity_id |-> e, parameter |-> p,
                      flow |-> f, ret |-> get_const_fxe(e, p, f)]
        /\ UNCHANGED <<params, fxe, model>>

GetAnnual ==
    \E e \in EntityIds, p \in {"actual_capacity"}, y \in YEARS :
        /\ result' = [op |-> "get_annual", entity_id |-> e, parameter |-> p,
                      year |-> y, ret |-> get_annual(e, p, y)]
        /\ UNCHANGED <<params, fxe, model>>

BuildCnfSet ==
    \E S \in SUBSET Entities, p \in {"enable_capacity", "enable_year"} :
        /\ result' = [op |-> "build_cnf_set", entity_set |-> S, parameter |-> p,
                      ret |-> build_cnf_set(S, p)]
        /\ UNCHANGED <<params, fxe, model>>

NextStore == CheckCnf \/ GetConst \/ GetConstFxe \/ GetAnnual \/ BuildCnfSet

Spec == InitStore /\ [][NextStore]_vars

(***************************************************************************)
(* The assembler: every pair of incidence tables over the flows, with at   *)
(* least one flow column in common (configuration.py merges the tables on  *)
(* their common columns) and every flow column connected to some entity in *)
(* one of the tables.  Demands have no row in the FoE table.               *)
(***************************************************************************)
Tables(index) ==
    UNION {{[index |-> index, columns |-> cols, cells |-> cs] :
                cs \in SUBSET (index \X cols)} :
            cols \in (SUBSET Flows) \ {{}}}

TablePairs ==
    {tp \in [FiE : Tables(Entities), FoE : Tables(Entities \ Demands)] :
        /\ tp.FiE.columns \cap tp.FoE.columns # {}
        /\ \A f \in tp.FiE.columns \cup tp.FoE.columns :
              \E c \in tp.FiE.cells \cup tp.FoE.cells : c[2] = f}

InitAssembler ==
    /\ params \in {[e \in Entities |-> IF e = "conv_a" THEN PlainTable(ca)
                                       ELSE PlainTable(Num(1))] : ca \in {NaN, Num(1)}}
    /\ fxe \in TablePairs
    /\ model = NoModel
    /\ result = NoCall

InitModel ==
    LET r == init_model
    IN  /\ model' = IF Raises(r) THEN model ELSE r.value
        /\ result' = [op |-> "init_model",
                      ret |-> IF Raises(r) THEN r ELSE Return(ModelRef)]
        /\ UNCHANGED <<params, fxe>>

NextAssembler == InitModel

SpecAssembler == InitAssembler /\ [][NextAssembler]_vars

(***************************************************************************)
(* A model that init_model built: conv_a turns elec into heat, conv_b      *)
(* produces both flows, dem_elec consumes both.                            *)
(***************************************************************************)
BuiltTables ==
    [FiE |-> [index |-> Entities, columns |-> Flows,
              cells |-> {<<"conv_a", "elec">>, <<"dem_elec", "elec">>,
                         <<"dem_elec", "heat">>}],
     FoE |-> [index |-> Entities \ Demands, columns |-> Flows,
              cells |-> {<<"conv_a", "heat">>, <<"conv_b", "elec">>,
                         <<"conv_b", "heat">>}]]

(***************************************************************************)
(* Capacity lifecycle: conv_a takes every combination of capacity option,  *)
(* enable year, lifetime and retirement series.                            *)
(***************************************************************************)
CapTables ==
    {EntityTable(cap, ey, life, Num(1), NoShares, Filled(10), retired) :
        cap \in {NaN, Num(1)},
        ey \in {NaN} \cup {Num(y) : y \in FirstYear .. (FirstYear + 1)},
        life \in {Missing, NaN} \cup {Num(l) : l \in 1 .. MaxLife},
        retired \in AnnualSeries(20)}

InitCap ==
    /\ params \in {[e \in Entities |-> IF e = "conv_a" THEN ta
                                       ELSE IF e = "conv_b" THEN PlainTable(Num(1))
                                       ELSE PlainTable(NaN)] : ta \in CapTables}
    /\ fxe = BuiltTables
    /\ model = init_model.value
    /\ result = NoCall

\* pyo.Constraint(<entities>, model.Y, rule=c_cap_transfer): the rule is
\* called once for every index
CCapTransfer ==
    /\ result' = [op |-> "c_cap_transfer",
                  ret |-> [i \in Nodes \X model.E \X model.Y |->
                              c_cap_transfer(model, i[1], i[2], i[3])]]
    /\ UNCHANGED <<params, fxe, model>>

CCapRetirement ==
    /\ result' = [op |-> "c_cap_retirement",
                  ret |-> [i \in Nodes \X model.E \X model.Y |->
                              c_cap_retirement(model, i[1], i[2], i[3])]]
    /\ UNCHANGED <<params, fxe, model>>

NextCap == CCapTransfer \/ CCapRetirement

SpecCap == InitCap /\ [][NextCap]_vars

(***************************************************************************)
(* Share constraints: every entity has one slot for its equal shares, one  *)
(* for its max shares and one for its min shares.                          *)
(***************************************************************************)
ShareSlots == {Missing, NaN, Num(0), Num(1), Num(2)}

SharesOf(eq, mx, mn) ==
    [p \in ShareParams |-> IF p \in EqualParams THEN eq
                           ELSE IF p \in MaxParams THEN mx ELSE mn]

InitShare ==
    /\ params \in {[e \in Entities |->
                      EntityTable(IF e \in Demands THEN NaN ELSE Num(1), Num(FirstYear),
                                  NaN, Num(1), SharesOf(eq, mx, mn),
                                  Filled(10), Filled(0))] :
                      eq \in ShareSlots, mx \in ShareSlots, mn \in ShareSlots}
    /\ fxe = BuiltTables
    /\ model = init_model.value
    /\ result = NoCall

\* pyo.Constraint(<pairs>, model.Y, model.D, model.H, rule=<generator>): the
\* rule is called once for every index
CFlowInShareEqual ==
    /\ result' = [op |-> "c_flow_in_share_equal",
                  ret |-> [i \in model.FiE \X model.Y \X model.D \X model.H |->
                              c_flow_in_share_equal(model, i[1][1], i[1][2], i[2], i[3], i[4])]]
    /\ UNCHANGED <<params, fxe, model>>

CFlowInShareMax ==
    /\ result' = [op |-> "c_flow_in_share_max",
                  ret |-> [i \in model.FiE \X model.Y \X model.D \X model.H |->
                              c_flow_in_share_max(model, i[1][1], i[1][2], i[2], i[3], i[4])]]
    /\ UNCHANGED <<params, fxe, model>>

CFlowInShareMin ==
    /\ result' = [op |-> "c_flow_in_share_min",
                  ret |-> [i \in model.FiE \X model.Y \X model.D \X model.H |->
                              c_flow_in_share_min(model, i[1][1], i[1][2], i[2], i[3], i[4])]]
    /\ UNCHANGED <<params, fxe, model>>

CFlowOutShareEqual ==
    /\ result' = [op |-> "c_flow_out_share_equal",
                  ret |-> [i \in model.FoE \X model.Y \X model.D \X model.H |->
                              c_flow_out_share_equal(model, i[1][1], i[1][2], i[2], i[3], i[4])]]
    /\ UNCHANGED <<params, fxe, model>>

CFlowOutShareMax ==
    /\ result' = [op |-> "c_flow_out_share_max",
                  ret |-> [i \in model.FoE \X model.Y \X model.D \X model.H |->
                              c_flow_out_share_max(model, i[1][1], i[1][2], i[2], i[3], i[4])]]
    /\ UNCHANGED <<params, fxe, model>>

CFlowOutShareMin ==
    /\ result' = [op |-> "c_flow_out_share_min",
                  ret |-> [i \in model.FoE \X model.Y \X model.D \X model.H |->
                              c_flow_out_share_min(model, i[1][1], i[1][2], i[2], i[3], i[4])]]
    /\ UNCHANGED <<params, fxe, model>>

CInputShareEqual ==
    /\ result' = [op |-> "c_input_share_equal",
                  ret |-> [i \in model.FiE \X model.Y \X model.D \X model.H |->
                              c_input_share_equal(model, i[1][1], i[1][2], i[2], i[3], i[4])]]
    /\ UNCHANGED <<params, fxe, model>>

CInputShareMax ==
    /\ result' = [op |-> "c_input_share_max",
                  ret |-> [i \in model.FiE \X model.Y \X model.D \X model.H |->
                              c_input_share_max(model, i[1][1], i[1][2], i[2], i[3], i[4])]]
    /\ UNCHANGED <<params, fxe, model>>

CInputShareMin ==
    /\ result' = [op |-> "c_input_share_min",
                  ret |-> [i \in model.FiE \X model.Y \X model.D \X model.H |->
                              c_input_share_min(model, i[1][1], i[1][2], i[2], i[3], i[4])]]
    /\ UNCHANGED <<params, fxe, model>>

COutputShareEqual ==
    /\ result' = [op |-> "c_output_share_equal",
                  ret |-> [i \in model.FoE \X model.Y \X model.D \X model.H |->
                              c_output_share_equal(model, i[1][1], i[1][2], i[2], i[3], i[4])]]
    /\ UNCHANGED <<params, fxe, model>>

COutputShareMax ==
    /\ result' = [op |-> "c_output_share_max",
                  ret |-> [i \in model.FoE \X model.Y \X model.D \X model.H |->
                              c_output_share_max(model, i[1][1], i[1][2], i[2], i[3], i[4])]]
    /\ UNCHANGED <<params, fxe, model>>

COutputShareMin ==
    /\ result' = [op |-> "c_output_share_min",
                  ret |-> [i \in model.FoE \X model.Y \X model.D \X model.H |->
                              c_output_share_min(model, i[1][1], i[1][2], i[2], i[3], i[4])]]
    /\ UNCHANGED <<params, fxe, model>>

NextShare ==
    \/ CFlowInShareEqual \/ CFlowInShareMax \/ CFlowInShareMin
    \/ CFlowOutShareEqual \/ CFlowOutShareMax \/ CFlowOutShareMin
    \/ CInputShareEqual \/ CInputShareMax \/ CInputShareMin
    \/ COutputShareEqual \/ COutputShareMax \/ COutputShareMin

SpecShare == InitShare /\ [][NextShare]_vars

(***************************************************************************)
(* Claims on the store.                                                    *)
(***************************************************************************)
StoredCell(entity_id, kind, key) == params[entity_id][kind][key]

\* C1: get_annual on a stored empty (NaN) cell raises and returns nothing;
\* get_const on a stored empty cell returns None and does not raise.
C1_RequiredValueStrictness ==
    /\ (/\ result.op = "get_annual"
        /\ HasKey(result.entity_id, "annual", <<result.parameter, result.year>>)
        /\ StoredCell(result.entity_id, "annual",
                      <<result.parameter, result.year>>) = NaN)
       => result.ret = Raise("ValueError")
    /\ (/\ result.op = "get_const"
        /\ HasKey(result.entity_id, "constant", result.parameter)
        /\ StoredCell(result.entity_id, "constant", result.parameter) = NaN)
       => result.ret = Return(None)

\* get_const answered None for an empty lifetime of an entity one of whose
\* annual cells is empty too, for which get_annual raises
C1_Witness ==
    /\ result.op = "get_const"
    /\ result.ret = Return(None)
    /\ HasKey(result.entity_id, "constant", result.parameter)
    /\ \E y \in YEARS :
          /\ HasKey(result.entity_id, "annual", <<"actual_capacity", y>>)
          /\ StoredCell(result.entity_id, "annual", <<"actual_capacity", y>>) = NaN
          /\ Raises(get_annual(result.entity_id, "actual_capacity", y))

\* C2: get_const_fxe raises when the (parameter, flow) key does not exist
\* for the entity, and returns None, without raising, when the key exists
\* and its cell is empty.
C2_MissingKeyVersusEmptyValue ==
    result.op = "get_const_fxe" =>
        LET key == <<result.parameter, result.flow>>
        IN  /\ ~HasKey(result.entity_id, "constant_fxe", key)
                  => result.ret = Raise("KeyError")
            /\ (/\ HasKey(result.entity_id, "constant_fxe", key)
                /\ StoredCell(result.entity_id, "constant_fxe", key) = NaN)
                  => result.ret = Return(None)

\* a stored entity without the key was asked for, and the call raised, in a
\* configuration where another key of that entity is stored
C2_Witness ==
    /\ result.op = "get_const_fxe"
    /\ result.entity_id \in DOMAIN params
    /\ ~HasKey(result.entity_id, "constant_fxe", <<result.parameter, result.flow>>)
    /\ result.ret = Raise("KeyError")
    /\ \E f \in Flows : HasKey(result.entity_id, "constant_fxe", <<result.parameter, f>>)

\* C3: for a stored configuration cell check_cnf returns a boolean, false
\* exactly when the cell is empty; it does not raise and never hands back
\* the stored value.
C3_CheckCnfIsBoolean ==
    (/\ result.op = "check_cnf"
     /\ HasKey(result.entity_id, "configuration", result.parameter))
    => /\ result.ret.tag = "return"
       /\ result.ret.value.t = "bool"
       /\ result.ret.value.b =
            (StoredCell(result.entity_id, "configuration", result.parameter) # NaN)

\* check_cnf was asked for an enable_year cell holding a year number
C3_Witness ==
    /\ result.op = "check_cnf"
    /\ result.parameter = "enable_year"
    /\ HasKey(result.entity_id, "configuration", "enable_year")
    /\ StoredCell(result.entity_id, "configuration", "enable_year") = Num(FirstYear)
    /\ result.ret = Return(Bool(TRUE))

\* C4: when the option is stored for every entity of the input set,
\* build_cnf_set returns exactly the entities of the input whose cell is
\* not empty.
C4_BuildCnfSetIsFilter ==
    (/\ result.op = "build_cnf_set"
     /\ \A e \in result.entity_set : HasKey(e, "configuration", result.parameter))
    => /\ result.ret.tag = "return"
       /\ result.ret.value.s \subseteq result.entity_set
       /\ result.ret.value.s =
            {e \in result.entity_set :
                StoredCell(e, "configuration", result.parameter) # NaN}

\* the set was built from an input with one enabled and one disabled entity
C4_Witness ==
    /\ result.op = "build_cnf_set"
    /\ result.entity_set = Entities
    /\ result.ret.tag = "return"
    /\ result.ret.value.s # {}
    /\ result.ret.value.s # Entities

(***************************************************************************)
(* Claims on the assembler.                                                *)
(***************************************************************************)
Producers(f) == {c[1] : c \in {x \in fxe.FoE.cells : x[2] = f}}
Consumers(f) == {c[1] : c \in {x \in fxe.FiE.cells : x[2] = f}}

\* C5: init_model returns a model that holds, for every flow of F and every
\* (year, day, hour), the balance constraint
\* sum of flow_out over the producers == sum of flow_in over the consumers,
\* also for a flow that has only producers or only consumers.
C5_BalanceForEveryFlow ==
    result.op = "init_model" =>
        /\ result.ret.tag = "return"
        /\ \A f \in FLOWS, y \in YEARS, d \in DAYS, h \in HOURS :
              /\ <<f, y, d, h>> \in DOMAIN model.c_io_balance
              /\ model.c_io_balance[<<f, y, d, h>>] =
                    Constraint(Sum({fout(f, e, y, d, h) : e \in Producers(f)}), "==",
                               Sum({fin(f, e, y, d, h) : e \in Consumers(f)}))

(***************************************************************************)
(* Claims on the capacity lifecycle.                                       *)
(***************************************************************************)
Cnf(e, p)        == params[e]["configuration"][p]
CapEnabled(e)    == Cnf(e, "enable_capacity") # NaN
EnableYearSet(e) == Cnf(e, "enable_year") # NaN
Continuity(n, e, y) ==
    Constraint(Sum({ctot(n, e, y)}), "==",
               Lin({Term(ctot(n, e, y - 1), 1, 1), Term(cnew(n, e, y), 1, 1),
                    Term(cret(n, e, y), -1, 1)}, 0))
RetiredIs(n, e, y, rhs) == Constraint(Sum({cret(n, e, y)}), "==", rhs)
VarsOf(r) == IF r.tag = "constraint"
             THEN {t.var : t \in r.lhs.terms \cup r.rhs.terms} ELSE {}

\* C6: for an entity with a configured enable-year, c_cap_transfer yields
\* the continuity equality for a capacity-enabled entity in every year
\* after the enable-year, and Skip in the enable-year, in earlier years and
\* for an entity without enable_capacity.
C6_TransferSkipsUntilEnabled ==
    result.op = "c_cap_transfer" =>
        \A i \in DOMAIN result.ret :
            LET n == i[1]
                e == i[2]
                y == i[3]
            IN  EnableYearSet(e) =>
                    IF CapEnabled(e) /\ y > Cnf(e, "enable_year").v
                    THEN result.ret[i] = Continuity(n, e, y)
                    ELSE result.ret[i] = Skip

C8_RetiredExactlyLifetimeLater ==
    \A e \in Entities :
        (/\ CapEnabled(e) /\ Cnf(e, "enable_year") = Num(FirstYear)
         /\ HasKey(e, "constant", "lifetime")
         /\ params[e]["constant"]["lifetime"] # NaN)
        => LET L == params[e]["constant"]["lifetime"].v
           IN  \A n \in Nodes, x \in YEARS :
                 /\ result.op = "c_cap_retirement" =>
                       /\ (x + L) \in YEARS =>
                             result.ret[<<n, e, x + L>>] =
                                RetiredIs(n, e, x + L, Sum({cnew(n, e, x)}))
                       /\ \A i \in DOMAIN result.ret :
                             i # <<n, e, x + L>> => cnew(n, e, x) \notin VarsOf(result.ret[i])
                 /\ result.op = "c_cap_transfer" =>
                       ((x + L) \in YEARS =>
                             result.ret[<<n, e, x + L>>] = Continuity(n, e, x + L))

\* lifetime 2 and enable-year = first year: the capacity built in the second
\* modelled year is what the retirement rule retires two years later
C8_Witness ==
    /\ result.op = "c_cap_retirement"
    /\ CapEnabled("conv_a") /\ Cnf("conv_a", "enable_year") = Num(FirstYear)
    /\ HasKey("conv_a", "constant", "lifetime")
    /\ params["conv_a"]["constant"]["lifetime"] = Num(2)
    /\ (FirstYear + 3) \in YEARS
    /\ \E n \in Nodes :
          result.ret[<<n, "conv_a", FirstYear + 3>>] =
            RetiredIs(n, "conv_a", FirstYear + 3, Sum({cnew(n, "conv_a", FirstYear + 1)}))

(***************************************************************************)
(* Claims on the share constraints.                                        *)
(***************************************************************************)
ShareParamOf ==
    [c_flow_in_share_equal  |-> "flow_in_share_equal",
     c_flow_in_share_max    |-> "flow_in_share_max",
     c_flow_in_share_min    |-> "flow_in_share_min",
     c_flow_out_share_equal |-> "flow_out_share_equal",
     c_flow_out_share_max   |-> "flow_out_share_max",
     c_flow_out_share_min   |-> "flow_out_share_min",
     c_input_share_equal    |-> "input_share_equal",
     c_input_share_max      |-> "input_share_max",
     c_input_share_min      |-> "input_share_min",
     c_output_share_equal   |-> "output_share_equal",
     c_output_share_max     |-> "output_share_max",
     c_output_share_min     |-> "output_share_min"]

ShareOps == DOMAIN ShareParamOf

\* the stored share factor of the index the generator was called for
ShareKey(i)  == <<ShareParamOf[result.op], i[1][1]>>
ShareStored(i) == HasKey(i[1][2], "constant_fxe", ShareKey(i))
ShareCell(i) == params[i[1][2]]["constant_fxe"][ShareKey(i)]

\* C9: each of the twelve share generators returns Skip, and does not
\* raise, for a (flow, entity, year) whose share factor is stored but empty.
C9_EmptyShareSkips ==
    result.op \in ShareOps =>
        \A i \in DOMAIN result.ret :
            (ShareStored(i) /\ ShareCell(i) = NaN) => result.ret[i] = Skip

\* a max-share generator skipped every index because the max shares are
\* empty, in a configuration whose equal shares are filled
C9_Witness ==
    /\ result.op = "c_flow_out_share_max"
    /\ DOMAIN result.ret # {}
    /\ \A i \in DOMAIN result.ret :
          /\ ShareStored(i) /\ ShareCell(i) = NaN
          /\ result.ret[i] = Skip
          /\ HasKey(i[1][2], "constant_fxe", <<"flow_out_share_equal", i[1][1]>>)
          /\ params[i[1][2]]["constant_fxe"][<<"flow_out_share_equal", i[1][1]>>] = Num(1)

\* the value, the relation and the total each generator is named after
ExpectedRelation(op) ==
    IF ShareParamOf[op] \in EqualParams THEN "=="
    ELSE IF ShareParamOf[op] \in MaxParams THEN "<=" ELSE ">="

ExpectedValue(op, i) ==
    IF op \in {"c_flow_in_share_equal", "c_flow_in_share_max", "c_flow_in_share_min",
               "c_input_share_equal", "c_input_share_max", "c_input_share_min"}
    THEN fin(i[1][1], i[1][2], i[2], i[3], i[4])
    ELSE fout(i[1][1], i[1][2], i[2], i[3], i[4])

ExpectedTotal(op, i) ==
    IF op \in {"c_flow_in_share_equal", "c_flow_in_share_max", "c_flow_in_share_min"}
    THEN {fin(c[2], c[1], i[2], i[3], i[4]) :
            c \in {x \in BuiltTables.FiE.cells : x[2] = i[1][1]}}
    ELSE IF op \in {"c_flow_out_share_equal", "c_flow_out_share_max", "c_flow_out_share_min"}
    THEN {fout(c[2], c[1], i[2], i[3], i[4]) :
            c \in {x \in BuiltTables.FoE.cells : x[2] = i[1][1]}}
    ELSE IF op \in {"c_input_share_equal", "c_input_share_max", "c_input_share_min"}
    THEN {fin(c[2], c[1], i[2], i[3], i[4]) :
            c \in {x \in BuiltTables.FiE.cells : x[1] = i[1][2]}}
    ELSE {fout(c[2], c[1], i[2], i[3], i[4]) :
            c \in {x \in BuiltTables.FoE.cells : x[1] = i[1][2]}}

\* C10: with a configured share factor every share generator relates its
\* flow value to share_factor * total with == for the equal variant, <= for
\* the max variant and >= for the min variant, in all four families.
C10_ShareRelationMatchesVariant ==
    result.op \in ShareOps =>
        \A i \in DOMAIN result.ret :
            (ShareStored(i) /\ ShareCell(i) # NaN) =>
                result.ret[i] =
                    Constraint(Sum({ExpectedValue(result.op, i)}),
                               ExpectedRelation(result.op),
                               Scaled(ShareCell(i).v, ExpectedTotal(result.op, i)))

(***************************************************************************)
(* Entity flow balances.  c_flow_in and c_flow_out exist twice: in         *)
(* model_generic/generic_constraints.py and, with a leading node index, in *)
(* model_utils/generic.py (generic_c_flow_in, generic_c_flow_out).         *)
(***************************************************************************)
a(e, y, d, h) == [name |-> "a", e |-> e, y |-> y, d |-> d, h |-> h]

\* sum(var * DATA.get_fxe(e, parameter, f, y) for (f, e) in pairs if e == entity_id),
\* with `/` in place of `*` when divide is true; the first getter that raises
\* ends the sum, a None factor is a TypeError, a zero divisor a ZeroDivisionError
RECURSIVE weighted_sum(_, _, _, _, _)
weighted_sum(todo, parameter, y, divide, acc) ==
    IF todo = {} THEN Return(Lin(acc, 0))
    ELSE LET v == CHOOSE v \in todo : TRUE
             k == get_fxe(v.e, parameter, v.f, y)
         IN  IF Raises(k) THEN k
             ELSE IF k.value = None THEN Raise("TypeError")
             ELSE IF divide /\ k.value.v = 0 THEN Raise("ZeroDivisionError")
             ELSE weighted_sum(todo \ {v}, parameter, y, divide,
                               acc \cup {IF divide THEN Term(v, 1, k.value.v)
                                                   ELSE Term(v, k.value.v, 1)})

\* return flows == model.a[entity_id, y, d, h]
FlowRule(flows, activity) ==
    IF Raises(flows) THEN flows
    ELSE Constraint(flows.value, "==", Sum({activity}))

c_flow_in(m, entity_id, y, d, h) ==
    FlowRule(weighted_sum(FinOfEntity(m, entity_id, y, d, h), "input_efficiency",
                          y, FALSE, {}),
             a(entity_id, y, d, h))

c_flow_out(m, entity_id, y, d, h) ==
    FlowRule(weighted_sum(FoutOfEntity(m, entity_id, y, d, h), "output_efficiency",
                          y, TRUE, {}),
             a(entity_id, y, d, h))

generic_c_flow_in(m, n, entity_id, y, d, h) ==
    FlowRule(weighted_sum(FinOfEntity(m, entity_id, y, d, h), "input_efficiency",
                          y, FALSE, {}),
             a(entity_id, y, d, h))

generic_c_flow_out(m, n, entity_id, y, d, h) ==
    FlowRule(weighted_sum(FoutOfEntity(m, entity_id, y, d, h), "output_efficiency",
                          y, FALSE, {}),
             a(entity_id, y, d, h))

(***************************************************************************)
(* Flow balances: the efficiencies of conv_a and the output efficiency of  *)
(* conv_b vary; an efficiency is the same on every flow of the entity.     *)
(***************************************************************************)
EfficiencyParams == {"input_efficiency", "output_efficiency"}

FlowTable(ineff, outeff) ==
    [configuration |-> Dict([p \in {"enable_capacity", "enable_year"} |->
                                IF p = "enable_capacity" THEN NaN ELSE Num(FirstYear)]),
     constant      |-> Dict([p \in {"lifetime"} |-> NaN]),
     constant_fxe  |-> Dict([pf \in EfficiencyParams \X Flows |->
                                IF pf[1] = "input_efficiency" THEN ineff ELSE outeff]),
     annual        |-> Dict([py \in {"actual_capacity"} \X YEARS |-> Num(10)])]

InitFlow ==
    /\ params \in {[e \in Entities |->
                      IF e = "conv_a" THEN FlowTable(ia, oa)
                      ELSE IF e = "conv_b" THEN FlowTable(Num(1), ob)
                      ELSE FlowTable(Num(2), Num(1))] :
                      ia \in {Missing, NaN, Num(1), Num(2)},
                      oa \in {Missing, NaN, Num(0), Num(1), Num(2)},
                      ob \in {Num(1), Num(2)}}
    /\ fxe = BuiltTables
    /\ model = init_model.value
    /\ result = NoCall

\* pyo.Constraint(<entities>, model.Y, model.D, model.H, rule=c_flow_in)
CFlowIn ==
    /\ result' = [op |-> "c_flow_in",
                  ret |-> [i \in model.E \X model.Y \X model.D \X model.H |->
                              c_flow_in(model, i[1], i[2], i[3], i[4])]]
    /\ UNCHANGED <<params, fxe, model>>

CFlowOut ==
    /\ result' = [op |-> "c_flow_out",
                  ret |-> [i \in model.E \X model.Y \X model.D \X model.H |->
                              c_flow_out(model, i[1], i[2], i[3], i[4])]]
    /\ UNCHANGED <<params, fxe, model>>

GenericCFlowIn ==
    /\ result' = [op |-> "generic.c_flow_in",
                  ret |-> [i \in model.E \X model.Y \X model.D \X model.H |->
                              generic_c_flow_in(model, "CH", i[1], i[2], i[3], i[4])]]
    /\ UNCHANGED <<params, fxe, model>>

GenericCFlowOut ==
    /\ result' = [op |-> "generic.c_flow_out",
                  ret |-> [i \in model.E \X model.Y \X model.D \X model.H |->
                              generic_c_flow_out(model, "CH", i[1], i[2], i[3], i[4])]]
    /\ UNCHANGED <<params, fxe, model>>

NextFlow == CFlowIn \/ CFlowOut \/ GenericCFlowIn \/ GenericCFlowOut

SpecFlow == InitFlow /\ [][NextFlow]_vars

(***************************************************************************)
(* Claims on the entity flow balances.                                     *)
(***************************************************************************)
FlowInOps  == {"c_flow_in", "generic.c_flow_in"}
FlowOutOps == {"c_flow_out", "generic.c_flow_out"}

\* the efficiency stored for a pair: a number, not empty, not missing
Efficiency(parameter, f, e) == params[e]["constant_fxe"][<<parameter, f>>]
EfficiencySet(parameter, f, e) ==
    /\ HasKey(e, "constant_fxe", <<parameter, f>>)
    /\ Efficiency(parameter, f, e) # NaN

InputsOf(e)  == {c \in BuiltTables.FiE.cells : c[1] = e}
OutputsOf(e) == {c \in BuiltTables.FoE.cells : c[1] = e}

\* C11: c_flow_in equates the activity of an entity to the sum, over the FiE
\* pairs of that entity only, of flow_in times input_efficiency; c_flow_out
\* equates it to the sum, over the FoE pairs of that entity only, of flow_out
\* divided by output_efficiency.
C11_EfficiencyWeightedBalances ==
    /\ result.op \in FlowInOps =>
          \A i \in DOMAIN result.ret :
              (\A c \in InputsOf(i[1]) : EfficiencySet("input_efficiency", c[2], c[1])) =>
                  result.ret[i] =
                      Constraint(Lin({Term(fin(c[2], c[1], i[2], i[3], i[4]),
                                           Efficiency("input_efficiency", c[2], c[1]).v, 1) :
                                         c \in InputsOf(i[1])}, 0),
                                 "==", Sum({a(i[1], i[2], i[3], i[4])}))
    /\ result.op \in FlowOutOps =>
          \A i \in DOMAIN result.ret :
              (\A c \in OutputsOf(i[1]) :
                  /\ EfficiencySet("output_efficiency", c[2], c[1])
                  /\ Efficiency("output_efficiency", c[2], c[1]) # Num(0)) =>
                  result.ret[i] =
                      Constraint(Lin({Term(fout(c[2], c[1], i[2], i[3], i[4]),
                                           1, Efficiency("output_efficiency", c[2], c[1]).v) :
                                         c \in OutputsOf(i[1])}, 0),
                                 "==", Sum({a(i[1], i[2], i[3], i[4])}))

(***************************************************************************)
(* Activity bounds and build rate.                                         *)
(***************************************************************************)
\* DATA.get(entity, parameter, year): the getter of the data handler for
\* optional annual parameters; a missing key raises, an empty cell is None
get(entity_id, parameter, year) ==
    IF ~HasKey(entity_id, "annual", <<parameter, year>>)
    THEN Raise("KeyError")
    ELSE LET value == params[entity_id]["annual"][<<parameter, year>>]
         IN  Return(IF ~isnan(value) THEN value ELSE None)

\* generic_expressions.e_hourly_capacity_to_activity
e_hourly_capacity_to_activity(e, y) ==
    LET cap == check_cnf(e, "enable_capacity")
        c2a == get(e, "capacity_to_activity", y)
    IN  IF Raises(cap) THEN cap
        ELSE IF ~Truthy(cap.value) THEN Skip
        ELSE IF Raises(c2a) THEN c2a
        ELSE IF c2a.value = None THEN Raise("TypeError")
        ELSE Return(Quotient(c2a.value, 365 * 24))

\* model.e_HourlyC2A[e, y]: pyo.Expression(model.Caps, model.Y, rule=...)
e_HourlyC2A(m, e, y) ==
    LET rule == e_hourly_capacity_to_activity(e, y)
    IN  IF e \notin m.Caps \/ y \notin m.Y \/ rule = Skip THEN Raise("KeyError")
        ELSE rule

\* generic_expressions.e_total_annual_activity:
\* sum(DL[y, d] * sum(HL * a[e, y, d, h] for h in H) for d in D)
e_total_annual_activity(m, e, y) ==
    Lin({TermOf(a(e, y, d, h), Product(m.DL[<<y, d>>], Num(m.HL))) :
            d \in m.D, h \in m.H}, 0)

\* if DATA.check_cnf(e, "enable_capacity"): <body>
\* return pyo.Constraint.Skip
IfCapacity(e, body) ==
    LET cap == check_cnf(e, "enable_capacity")
    IN  IF Raises(cap) THEN cap
        ELSE IF Truthy(cap.value) THEN body
        ELSE Skip

\* if DATA.check_cnf(e, "enable_capacity") and y > DATA.check_cnf(e, "enable_year"): <body>
\* return pyo.Constraint.Skip
IfCapacityAfter(e, y, body) ==
    LET gate == CapacityGate(e, y)
    IN  IF Raises(gate) THEN gate
        ELSE IF gate.value.b THEN body
        ELSE Skip

\* model.a[e, y, d, h] - model.a[e, y, d, h_prev] <= max_activity_change
RampBound(m, up, e, y, d, h, h_prev, max_activity_change) ==
    IF h_prev \notin m.H THEN Raise("KeyError")
    ELSE Constraint(Lin({Term(a(e, y, d, h), IF up THEN 1 ELSE -1, 1),
                         Term(a(e, y, d, h_prev), IF up THEN -1 ELSE 1, 1)}, 0),
                    "<=", max_activity_change)

\* model_generic/generic_constraints.py: the rate is scaled by model.HL
\* before it is tested for None
RampRule(m, up, e, y, d, h) ==
    IfCapacity(e,
        LET rr == get(e, "ramp_rate", y)
        IN  IF Raises(rr) THEN rr
            ELSE IF rr.value = None THEN Raise("TypeError")
            ELSE LET ramp_rate == Product(rr.value, Num(m.HL))
                     c2a == e_HourlyC2A(m, e, y)
                 IN  IF AtLeastOne(ramp_rate) THEN Skip
                     ELSE IF Raises(c2a) THEN c2a
                     ELSE RampBound(m, up, e, y, d, h, h - m.HL,
                                    Lin({TermOf(ctot("CH", e, y),
                                                Product(ramp_rate, c2a.value))}, 0)))

c_act_ramp_up(m, e, y, d, h)   == RampRule(m, TRUE, e, y, d, h)
c_act_ramp_down(m, e, y, d, h) == RampRule(m, FALSE, e, y, d, h)

\* model_utils/generic.py
GenericRampRule(m, up, n, entity_id, y, d, h) ==
    IfCapacityAfter(entity_id, y,
        LET rr == get(entity_id, "ramp_rate", y)
            c2a == get(entity_id, "capacity_to_activity", y)
        IN  IF Raises(rr) THEN rr
            ELSE IF rr.value = None \/ AtLeastOne(rr.value) THEN Skip
            ELSE IF Raises(c2a) THEN c2a
            ELSE IF c2a.value = None THEN Raise("TypeError")
            ELSE RampBound(m, up, entity_id, y, d, h, h - 1,
                           Lin({TermOf(ctot(n, entity_id, y),
                                       Product(rr.value,
                                               Quotient(Product(c2a.value, Num(m.HL)),
                                                        365 * 24)))}, 0)))

generic_c_act_ramp_up(m, n, entity_id, y, d, h) ==
    GenericRampRule(m, TRUE, n, entity_id, y, d, h)
generic_c_act_ramp_down(m, n, entity_id, y, d, h) ==
    GenericRampRule(m, FALSE, n, entity_id, y, d, h)

\* lf * model.ctot[...] * factor: a None load factor is a TypeError
LoadFactorBound(lf, capacity, factor) ==
    IF Raises(lf) THEN lf
    ELSE IF lf.value = None THEN Raise("TypeError")
    ELSE IF Raises(factor) THEN factor
    ELSE IF factor.value = None THEN Raise("TypeError")
    ELSE Return(Lin({TermOf(capacity, Product(lf.value, factor.value))}, 0))

\* return bound <= activity (minimum) or activity <= bound (maximum)
LoadFactorRule(bound, minimum, activity) ==
    IF Raises(bound) THEN bound
    ELSE IF minimum THEN Constraint(bound.value, "<=", activity)
    ELSE Constraint(activity, "<=", bound.value)

\* model_generic/generic_constraints.py
c_act_cf_min_hour(m, e, y, d, h) ==
    IfCapacity(e, LoadFactorRule(LoadFactorBound(get(e, "lf_min", y), ctot("CH", e, y),
                                                 e_HourlyC2A(m, e, y)),
                                 TRUE, Sum({a(e, y, d, h)})))

c_act_cf_max_hour(m, e, y, d, h) ==
    IfCapacity(e, LoadFactorRule(LoadFactorBound(get(e, "lf_max", y), ctot("CH", e, y),
                                                 e_HourlyC2A(m, e, y)),
                                 FALSE, Sum({a(e, y, d, h)})))

c_act_cf_min_year(m, e, y) ==
    IfCapacity(e, LoadFactorRule(LoadFactorBound(get(e, "lf_min", y), ctot("CH", e, y),
                                                 get(e, "capacity_to_activity", y)),
                                 TRUE, e_total_annual_activity(m, e, y)))

c_act_cf_max_year(m, e, y) ==
    IfCapacity(e, LoadFactorRule(LoadFactorBound(get(e, "lf_max", y), ctot("CH", e, y),
                                                 get(e, "capacity_to_activity", y)),
                                 FALSE, e_total_annual_activity(m, e, y)))

\* model_utils/generic.py
\* DATA.get(entity_id, "capacity_to_activity", y) * model.HL / (365 * 24)
generic_cap_to_act(entity_id, y) ==
    LET c2a == get(entity_id, "capacity_to_activity", y)
    IN  IF Raises(c2a) THEN c2a
        ELSE IF c2a.value = None THEN Raise("TypeError")
        ELSE Return(Quotient(Product(c2a.value, Num(TIMESLICE)), 365 * 24))

\* sum(model.DL[y, d] * sum(model.a[n, entity_id, y, d, h] for h in model.H) for d in model.D)
generic_act_annual(m, n, entity_id, y) ==
    Lin({TermOf(a(entity_id, y, d, h), m.DL[<<y, d>>]) : d \in m.D, h \in m.H}, 0)

generic_c_act_cf_min_hour(m, n, entity_id, y, d, h) ==
    IfCapacityAfter(entity_id, y,
        LoadFactorRule(LoadFactorBound(get(entity_id, "lf_min", y), ctot(n, entity_id, y),
                                       generic_cap_to_act(entity_id, y)),
                       TRUE, Sum({a(entity_id, y, d, h)})))

generic_c_act_cf_max_hour(m, n, entity_id, y, d, h) ==
    IfCapacityAfter(entity_id, y,
        LoadFactorRule(LoadFactorBound(get(entity_id, "lf_max", y), ctot(n, entity_id, y),
                                       generic_cap_to_act(entity_id, y)),
                       FALSE, Sum({a(entity_id, y, d, h)})))

generic_c_act_cf_min_year(m, n, entity_id, y) ==
    IfCapacityAfter(entity_id, y,
        LoadFactorRule(LoadFactorBound(get(entity_id, "lf_min", y), ctot(n, entity_id, y),
                                       get(entity_id, "capacity_to_activity", y)),
                       TRUE, generic_act_annual(m, n, entity_id, y)))

generic_c_act_cf_max_year(m, n, entity_id, y) ==
    IfCapacityAfter(entity_id, y,
        LoadFactorRule(LoadFactorBound(get(entity_id, "lf_max", y), ctot(n, entity_id, y),
                                       get(entity_id, "capacity_to_activity", y)),
                       FALSE, generic_act_annual(m, n, entity_id, y)))

\* model_generic/generic_constraints.py: the rate is scaled by model.YL
\* before it is tested for None
c_cap_buildrate(m, e, y) ==
    IfCapacity(e,
        LET br == get(e, "buildrate", y)
        IN  IF Raises(br) THEN br
            ELSE IF br.value = None THEN Raise("TypeError")
            ELSE Constraint(Sum({cnew("CH", e, y)}), "<=",
                            Lin({}, br.value.v * YEARSLICE)))

\* model_utils/generic.py
generic_c_cap_buildrate(m, n, e, y) ==
    IfCapacityAfter(e, y,
        LET buildrate == get(e, "buildrate", y)
        IN  IF Raises(buildrate) THEN buildrate
            ELSE IF buildrate.value # None
            THEN Constraint(Sum({cnew(n, e, y)}), "<=", Lin({}, buildrate.value.v))
            ELSE Skip)

(***************************************************************************)
(* Activity bounds and build rate: conv_a takes every combination of       *)
(* capacity option, enable year, ramp rate, load factor and build rate; an *)
(* optional annual parameter has the same cell in every year.              *)
(***************************************************************************)
OptionalParams == {"ramp_rate", "lf_min", "lf_max", "buildrate"}

ActivityTable(cap, ey, ramp, lf, br) ==
    [configuration |-> Dict([p \in {"enable_capacity", "enable_year"} |->
                                IF p = "enable_capacity" THEN cap ELSE ey]),
     constant      |-> Dict([p \in {"lifetime"} |-> NaN]),
     constant_fxe  |-> Dict([pf \in EfficiencyParams \X Flows |-> Num(1)]),
     annual        |-> Dict([py \in ({"actual_capacity", "capacity_to_activity"}
                                       \cup OptionalParams) \X YEARS |->
                                IF py[1] = "actual_capacity" THEN Num(10)
                                ELSE IF py[1] = "capacity_to_activity" THEN Num(17520)
                                ELSE IF py[1] = "ramp_rate" THEN ramp
                                ELSE IF py[1] = "buildrate" THEN br
                                ELSE lf])]

InitActivity ==
    /\ params \in {[e \in Entities |->
                      IF e = "conv_a" THEN ActivityTable(cap, ey, ramp, lf, br)
                      ELSE IF e = "conv_b"
                      THEN ActivityTable(Num(1), Num(FirstYear), Ratio(1, 4), Ratio(3, 4), Num(7))
                      ELSE ActivityTable(NaN, NaN, Ratio(1, 4), NaN, NaN)] :
                      cap \in {NaN, Num(1)},
                      ey \in {Num(FirstYear), Num(FirstYear + 1)},
                      ramp \in {Missing, NaN, Ratio(1, 2), Num(1), Num(2)},
                      lf \in {NaN, Ratio(1, 2)},
                      br \in {NaN, Num(5)}}
    /\ fxe = BuiltTables
    /\ model = init_model.value
    /\ result = NoCall

\* pyo.Constraint(<entities>, model.Y, model.D, model.H - model.H0, rule=c_act_ramp_up),
\* pyo.Constraint(<entities>, model.Y, model.D, model.H, rule=c_act_cf_min_hour),
\* pyo.Constraint(<entities>, model.Y, rule=c_cap_buildrate): the rule is called
\* once for every index

CActRampUp ==
    /\ result' = [op |-> "c_act_ramp_up",
                  ret |-> [i \in model.E \X model.Y \X model.D \X (model.H \ model.H0) |->
                              c_act_ramp_up(model, i[1], i[2], i[3], i[4])]]
    /\ UNCHANGED <<params, fxe, model>>

GenericCActRampUp ==
    /\ result' = [op |-> "generic.c_act_ramp_up",
                  ret |-> [i \in model.E \X model.Y \X model.D \X (model.H \ model.H0) |->
                              generic_c_act_ramp_up(model, "CH", i[1], i[2], i[3], i[4])]]
    /\ UNCHANGED <<params, fxe, model>>

CActRampDown ==
    /\ result' = [op |-> "c_act_ramp_down",
                  ret |-> [i \in model.E \X model.Y \X model.D \X (model.H \ model.H0) |->
                              c_act_ramp_down(model, i[1], i[2], i[3], i[4])]]
    /\ UNCHANGED <<params, fxe, model>>

GenericCActRampDown ==
    /\ result' = [op |-> "generic.c_act_ramp_down",
                  ret |-> [i \in model.E \X model.Y \X model.D \X (model.H \ model.H0) |->
                              generic_c_act_ramp_down(model, "CH", i[1], i[2], i[3], i[4])]]
    /\ UNCHANGED <<params, fxe, model>>

CActCfMinHour ==
    /\ result' = [op |-> "c_act_cf_min_hour",
                  ret |-> [i \in model.E \X model.Y \X model.D \X model.H |->
                              c_act_cf_min_hour(model, i[1], i[2], i[3], i[4])]]
    /\ UNCHANGED <<params, fxe, model>>

GenericCActCfMinHour ==
    /\ result' = [op |-> "generic.c_act_cf_min_hour",
                  ret |-> [i \in model.E \X model.Y \X model.D \X model.H |->
                              generic_c_act_cf_min_hour(model, "CH", i[1], i[2], i[3], i[4])]]
    /\ UNCHANGED <<params, fxe, model>>

CActCfMaxHour ==
    /\ result' = [op |-> "c_act_cf_max_hour",
                  ret |-> [i \in model.E \X model.Y \X model.D \X model.H |->
                              c_act_cf_max_hour(model, i[1], i[2], i[3], i[4])]]
    /\ UNCHANGED <<params, fxe, model>>

GenericCActCfMaxHour ==
    /\ result' = [op |-> "generic.c_act_cf_max_hour",
                  ret |-> [i \in model.E \X model.Y \X model.D \X model.H |->
                              generic_c_act_cf_max_hour(model, "CH", i[1], i[2], i[3], i[4])]]
    /\ UNCHANGED <<params, fxe, model>>

CActCfMinYear ==
    /\ result' = [op |-> "c_act_cf_min_year",
                  ret |-> [i \in model.E \X model.Y |-> c_act_cf_min_year(model, i[1], i[2])]]
    /\ UNCHANGED <<params, fxe, model>>

GenericCActCfMinYear ==
    /\ result' = [op |-> "generic.c_act_cf_min_year",
                  ret |-> [i \in model.E \X model.Y |->
                              generic_c_act_cf_min_year(model, "CH", i[1], i[2])]]
    /\ UNCHANGED <<params, fxe, model>>

CActCfMaxYear ==
    /\ result' = [op |-> "c_act_cf_max_year",
                  ret |-> [i \in model.E \X model.Y |-> c_act_cf_max_year(model, i[1], i[2])]]
    /\ UNCHANGED <<params, fxe, model>>

GenericCActCfMaxYear ==
    /\ result' = [op |-> "generic.c_act_cf_max_year",
                  ret |-> [i \in model.E \X model.Y |->
                              generic_c_act_cf_max_year(model, "CH", i[1], i[2])]]
    /\ UNCHANGED <<params, fxe, model>>

CCapBuildrate ==
    /\ result' = [op |-> "c_cap_buildrate",
                  ret |-> [i \in model.E \X model.Y |-> c_cap_buildrate(model, i[1], i[2])]]
    /\ UNCHANGED <<params, fxe, model>>

GenericCCapBuildrate ==
    /\ result' = [op |-> "generic.c_cap_buildrate",
                  ret |-> [i \in model.E \X model.Y |->
                              generic_c_cap_buildrate(model, "CH", i[1], i[2])]]
    /\ UNCHANGED <<params, fxe, model>>

NextActivity ==
    \/ CActRampUp \/ GenericCActRampUp
    \/ CActRampDown \/ GenericCActRampDown
    \/ CActCfMinHour \/ GenericCActCfMinHour
    \/ CActCfMaxHour \/ GenericCActCfMaxHour
    \/ CActCfMinYear \/ GenericCActCfMinYear
    \/ CActCfMaxYear \/ GenericCActCfMaxYear
    \/ CCapBuildrate \/ GenericCCapBuildrate

SpecActivity == InitActivity /\ [][NextActivity]_vars

(***************************************************************************)
(* Claims on the activity bounds and the build rate.                       *)
(***************************************************************************)
RampOps == {"c_act_ramp_up", "generic.c_act_ramp_up",
            "c_act_ramp_down", "generic.c_act_ramp_down"}
RampUpOps == {"c_act_ramp_up", "generic.c_act_ramp_up"}
LoadFactorOps ==
    {"c_act_cf_min_hour", "generic.c_act_cf_min_hour",
     "c_act_cf_max_hour", "generic.c_act_cf_max_hour",
     "c_act_cf_min_year", "generic.c_act_cf_min_year",
     "c_act_cf_max_year", "generic.c_act_cf_max_year"}
BuildrateOps == {"c_cap_buildrate", "generic.c_cap_buildrate"}

AnnualStored(e, p, y) == HasKey(e, "annual", <<p, y>>)
AnnualCell(e, p, y)   == params[e]["annual"][<<p, y>>]

\* ramp_rate * capacity_total[e, y] * capacity-to-activity factor of one
\* hour slice
ExpectedRampLimit(e, y) ==
    Lin({TermOf(ctot("CH", e, y),
                Product(AnnualCell(e, "ramp_rate", y),
                        Quotient(Product(AnnualCell(e, "capacity_to_activity", y),
                                         Num(TIMESLICE)), 365 * 24)))}, 0)

ExpectedRampChange(up, e, y, d, h) ==
    IF up THEN Lin({Term(a(e, y, d, h), 1, 1), Term(a(e, y, d, h - TIMESLICE), -1, 1)}, 0)
    ELSE Lin({Term(a(e, y, d, h - TIMESLICE), 1, 1), Term(a(e, y, d, h), -1, 1)}, 0)

\* C12: c_act_ramp_up and c_act_ramp_down return Skip, without raising, when
\* the ramp rate of the year is empty or >= 1; otherwise they bound the change
\* of activity between consecutive hour slices of one day (up: a[h] - a[h_prev],
\* down: a[h_prev] - a[h]) by ramp_rate * capacity_total * capacity-to-activity.
C12_RampSkipsOrBounds ==
    result.op \in RampOps =>
        \A i \in DOMAIN result.ret :
            (CapEnabled(i[1]) /\ AnnualStored(i[1], "ramp_rate", i[2])) =>
                IF AnnualCell(i[1], "ramp_rate", i[2]) = NaN
                   \/ AtLeastOne(AnnualCell(i[1], "ramp_rate", i[2]))
                THEN result.ret[i] = Skip
                ELSE result.ret[i] =
                        Constraint(ExpectedRampChange(result.op \in RampUpOps,
                                                      i[1], i[2], i[3], i[4]),
                                   "<=", ExpectedRampLimit(i[1], i[2]))

LoadFactorParamOf(op) ==
    IF op \in {"c_act_cf_min_hour", "generic.c_act_cf_min_hour",
               "c_act_cf_min_year", "generic.c_act_cf_min_year"}
    THEN "lf_min" ELSE "lf_max"

\* C13: the four load-factor generators, called for a capacity-enabled entity
\* whose lf_min / lf_max cell of the year is empty, return Skip and do not
\* raise.
C13_EmptyLoadFactorSkips ==
    result.op \in LoadFactorOps =>
        \A i \in DOMAIN result.ret :
            (/\ CapEnabled(i[1])
             /\ AnnualStored(i[1], LoadFactorParamOf(result.op), i[2])
             /\ AnnualCell(i[1], LoadFactorParamOf(result.op), i[2]) = NaN) =>
                result.ret[i] = Skip

\* C14: c_cap_buildrate yields capacity_new[e, y] <= buildrate(e, y) when a
\* build rate is configured, and returns Skip, without raising, when the build
\* rate is empty or the entity has no enable_capacity.
C14_BuildrateBoundsOrSkips ==
    result.op \in BuildrateOps =>
        \A i \in DOMAIN result.ret :
            AnnualStored(i[1], "buildrate", i[2]) =>
                IF CapEnabled(i[1]) /\ AnnualCell(i[1], "buildrate", i[2]) # NaN
                THEN result.ret[i] =
                        Constraint(Sum({cnew("CH", i[1], i[2])}), "<=",
                                   Lin({}, AnnualCell(i[1], "buildrate", i[2]).v))
                ELSE result.ret[i] = Skip

(***************************************************************************)
(* Demand clustering (gen_utils/k_clustering.py).  A load profile maps a   *)
(* historical day to its hourly loads.  KMeans returns a label per day and *)
(* one centre per label, the mean of the days that carry the label; which  *)
(* labelling it returns is left open.  numpy floats divide by zero to inf  *)
(* or nan without raising.                                                 *)
(***************************************************************************)
Inf(sign) == [t |-> "inf", sign |-> sign]
Sign(x) == IF NumOf(x) < 0 THEN -1 ELSE 1
Finite(x) == x.t \in {"num", "ratio"}

\* numpy x / y
Divide(x, y) ==
    IF NumOf(y) = 0 THEN (IF NumOf(x) = 0 THEN NaN ELSE Inf(Sign(x)))
    ELSE IF NumOf(y) < 0 THEN Product(x, Ratio(-DenOf(y), -NumOf(y)))
    ELSE Product(x, Ratio(DenOf(y), NumOf(y)))

\* numpy x * y for a finite x
Times(x, y) ==
    IF y = NaN THEN NaN
    ELSE IF y.t = "inf" THEN (IF NumOf(x) = 0 THEN NaN ELSE Inf(Sign(x) * y.sign))
    ELSE Product(x, y)

\* sum(f[i] for i in S)
RECURSIVE SumOf(_, _)
SumOf(S, f) ==
    IF S = {} THEN Ratio(0, 1)
    ELSE LET i == CHOOSE i \in S : TRUE
         IN  Plus(f[i], SumOf(S \ {i}, f))

\* k_means_model.cluster_centers_: the mean of the member days, hour by hour
cluster_centers_(load_prof_yr, cluster_labels, n_clusters) ==
    [i \in 0 .. (n_clusters - 1) |->
        LET members == {s \in DOMAIN load_prof_yr : cluster_labels[s] = i}
        IN  [h \in DOMAIN load_prof_yr[CHOOSE s \in DOMAIN load_prof_yr : TRUE] |->
                Divide(SumOf(members, [s \in members |-> Num(load_prof_yr[s][h])]),
                       Num(Cardinality(members)))]]

\* sklearn.metrics.silhouette_samples: one value per sample; it rejects a
\* labelling with fewer than 2 labels or with as many labels as samples
silhouette_samples(load_prof_yr, cluster_labels) ==
    LET n_labels  == Cardinality({cluster_labels[s] : s \in DOMAIN cluster_labels})
        n_samples == Cardinality(DOMAIN load_prof_yr)
    IN  IF 1 < n_labels /\ n_labels < n_samples
        THEN Return([s \in DOMAIN load_prof_yr |-> 0])
        ELSE Raise("ValueError")

cluster_ratios_of(days, load_prof_yr, cluster_labels, sample_silhouette_values) ==
    LET size_cluster ==
            [i \in days |-> Cardinality({s \in DOMAIN sample_silhouette_values :
                                            cluster_labels[s] = i})]
        total == SumOf(days, [i \in days |-> Num(size_cluster[i])])
    IN  [i \in days |-> Divide(Num(size_cluster[i]), total)]

\* get_k_means_hourly_demand(days, load_prof_yr), with the labelling KMeans
\* returned
get_k_means_hourly_demand(days, load_prof_yr, cluster_labels) ==
    LET hourly_dem ==
            LET centres == cluster_centers_(load_prof_yr, cluster_labels, Cardinality(days))
            IN  [i \in DOMAIN centres |->
                    [h \in DOMAIN centres[i] |-> Divide(centres[i][h], Num(1000))]]
        sample_silhouette_values == silhouette_samples(load_prof_yr, cluster_labels)
    IN  IF Cardinality(DOMAIN load_prof_yr) < Cardinality(days)
        THEN Raise("ValueError")           \* KMeans: n_samples < n_clusters
        ELSE IF Raises(sample_silhouette_values) THEN sample_silhouette_values
        ELSE Return([cluster_ratios |->
                         cluster_ratios_of(days, load_prof_yr, cluster_labels,
                                           sample_silhouette_values.value),
                     hourly_dem |-> hourly_dem])

\* the body of the loop of get_demand_shape for one year
demand_shape_of_year(days, clusters, hist) ==
    LET k_ratio == clusters.cluster_ratios
        prof_demand_d_h == clusters.hourly_dem
        elec_supplied_y ==
            SumOf(days, [i \in days |->
                Divide(Product(Product(SumOf(DOMAIN prof_demand_d_h[i], prof_demand_d_h[i]),
                                       Num(365)), k_ratio[i]), Num(1000))])
        hist_prof_ratio_y == Divide(hist, elec_supplied_y)
    IN  [d \in DOMAIN prof_demand_d_h |->
            [h \in DOMAIN prof_demand_d_h[d] |-> Times(prof_demand_d_h[d][h], hist_prof_ratio_y)]]

\* get_demand_shape(years, days, hist_elec_demand): every year reads the
\* same profile file
get_demand_shape(years, days, hist_elec_demand, load_prof, cluster_labels) ==
    LET clusters == get_k_means_hourly_demand(days, load_prof, cluster_labels)
    IN  IF years = {} THEN Return([k_ratio_y_d |-> <<>>, demand_y_d_h |-> <<>>])
        ELSE IF Raises(clusters) THEN clusters
        ELSE IF \E y \in years : y \notin DOMAIN hist_elec_demand THEN Raise("KeyError")
        ELSE Return([k_ratio_y_d  |-> [y \in years |-> clusters.value.cluster_ratios],
                     demand_y_d_h |-> [y \in years |->
                                          demand_shape_of_year(days, clusters.value,
                                                               hist_elec_demand[y])]])

(***************************************************************************)
(* Demand initialisation (model_modules/demands.py).                       *)
(***************************************************************************)
ISO3 == "CHE"

\* model.a["dem_elec", y, d, h].fix(value) for every (y, d, h)
FixAll(fixed, values) ==
    [v \in (DOMAIN fixed) \cup (DOMAIN values) |->
        IF v \in DOMAIN values THEN values[v] ELSE fixed[v]]

\* _init_dem_elec(model), with the labelling KMeans returned.  The profile
\* of the country is clustered by get_demand_shape of k_clustering.py into
\* cnf.NDAYS representative days
_init_dem_elec(m, cluster_labels) ==
    LET demand == [y \in m.Y |-> get_annual("dem_elec", "actual_demand", y)]
        shape  == get_demand_shape(m.Y, 0 .. (NDAYS - 1),
                                   [y \in m.Y |-> demand[y].value],
                                   params[ISO3].load_prof, cluster_labels)
    IN  IF \E y \in m.Y : Raises(demand[y])
        THEN CHOOSE r \in {demand[y] : y \in m.Y} : Raises(r)
        ELSE IF Raises(shape) THEN shape
        ELSE IF \E d \in m.D : d \notin DOMAIN shape.value.k_ratio_y_d[FirstYear]
        THEN Raise("IndexError")
        ELSE IF "dem_elec" \notin m.E THEN Raise("KeyError")
        ELSE Return(
            [m EXCEPT
                !.DL = [yd \in m.Y \X m.D |->
                           Product(shape.value.k_ratio_y_d[yd[1]][yd[2]], Num(365))],
                !.fixed = FixAll(m.fixed,
                                 [v \in {a("dem_elec", y, d, h) :
                                            y \in m.Y, d \in m.D, h \in m.H} |->
                                     shape.value.demand_y_d_h[v.y][v.d][v.h]])])

(***************************************************************************)
(* Demand clustering: a profile of NumProfileDays historical days, each    *)
(* with one of three shapes; the historical demand of dem_elec is filled   *)
(* or has an empty first year.                                             *)
(***************************************************************************)
NumProfileDays == 3
MaxClusters    == NDAYS

DayShapes ==
    {[h \in HOURS |-> 0], [h \in HOURS |-> 2000],
     [h \in HOURS |-> IF h % 2 = 0 THEN 2000 ELSE -2000]}

LoadProfiles == [1 .. NumProfileDays -> DayShapes]

Labellings(k) == [1 .. NumProfileDays -> 0 .. (k - 1)]

DemandTable(demand) ==
    [configuration |-> Dict([p \in {"enable_capacity", "enable_year"} |-> NaN]),
     constant      |-> Dict([p \in {"lifetime"} |-> NaN]),
     constant_fxe  |-> Dict([pf \in EfficiencyParams \X Flows |-> Num(1)]),
     annual        |-> Dict([py \in {"actual_demand"} \X YEARS |-> demand[py[2]]])]

HistoricalDemand(e) == [y \in YEARS |-> get_annual(e, "actual_demand", y).value]

DemandConfigurations ==
    {[e \in Entities \cup {ISO3} |->
         IF e = ISO3 THEN [load_prof |-> lp] ELSE DemandTable(demand)] :
         lp \in LoadProfiles,
         demand \in {Filled(50),
                     [y \in YEARS |-> IF y = FirstYear THEN NaN
                                      ELSE Num(50 + (y - FirstYear))]}}

InitCluster ==
    /\ params \in DemandConfigurations
    /\ fxe = NoTables
    /\ model = NoModel
    /\ result = NoCall

GetKMeansHourlyDemand ==
    \E k \in 1 .. MaxClusters : \E cluster_labels \in Labellings(k) :
        /\ result' = [op |-> "get_k_means_hourly_demand", days |-> 0 .. (k - 1),
                      cluster_labels |-> cluster_labels,
                      ret |-> get_k_means_hourly_demand(0 .. (k - 1), params[ISO3].load_prof,
                                                        cluster_labels)]
        /\ UNCHANGED <<params, fxe, model>>

GetDemandShape ==
    \E k \in 1 .. MaxClusters : \E cluster_labels \in Labellings(k) :
        /\ \A y \in YEARS : ~Raises(get_annual("dem_elec", "actual_demand", y))
        /\ result' = [op |-> "get_demand_shape", days |-> 0 .. (k - 1),
                      cluster_labels |-> cluster_labels,
                      ret |-> get_demand_shape(YEARS, 0 .. (k - 1),
                                               HistoricalDemand("dem_elec"),
                                               params[ISO3].load_prof, cluster_labels)]
        /\ UNCHANGED <<params, fxe, model>>

NextCluster == GetKMeansHourlyDemand \/ GetDemandShape

SpecCluster == InitCluster /\ [][NextCluster]_vars

InitDemand ==
    /\ params \in DemandConfigurations
    /\ fxe = BuiltTables
    /\ model = init_model.value
    /\ result = NoCall

InitDemElec ==
    \E cluster_labels \in Labellings(NDAYS) :
        LET r == _init_dem_elec(model, cluster_labels)
        IN  /\ model' = IF Raises(r) THEN model ELSE r.value
            /\ result' = [op |-> "_init_dem_elec", days |-> 0 .. (NDAYS - 1),
                          cluster_labels |-> cluster_labels,
                          ret |-> IF Raises(r) THEN r ELSE Return(ModelRef)]
            /\ UNCHANGED <<params, fxe>>

NextDemand == InitDemElec

SpecDemand == InitDemand /\ [][NextDemand]_vars

(***************************************************************************)
(* Claims on the demand clustering.                                        *)
(***************************************************************************)
\* the historical days that carry label i
AssignedTo(i) == {s \in 1 .. NumProfileDays : result.cluster_labels[s] = i}

\* C15: for any number k of representative days, the occurrence ratio
\* returned for each cluster is (historical days assigned to the cluster) /
\* (all historical days), and the k ratios sum to 1.
C15_OccurrenceRatios ==
    result.op = "get_k_means_hourly_demand" =>
        /\ result.ret.tag = "return"
        /\ \A i \in result.days :
              result.ret.value.cluster_ratios[i] =
                  Lowest(Cardinality(AssignedTo(i)), NumProfileDays)
        /\ SumOf(result.days, result.ret.value.cluster_ratios) = Ratio(1, 1)

\* sum over days of occurrence_ratio[day] * 365 * (sum over hours of demand[day, hour])
AnnualisedDemand(shape, y) ==
    SumOf(DOMAIN shape.demand_y_d_h[y],
          [d \in DOMAIN shape.demand_y_d_h[y] |->
              Product(Product(shape.k_ratio_y_d[y][d], Num(365)),
                      SumOf(DOMAIN shape.demand_y_d_h[y][d], shape.demand_y_d_h[y][d]))])

ShapeFinite(shape, y) ==
    \A d \in DOMAIN shape.demand_y_d_h[y] : \A h \in DOMAIN shape.demand_y_d_h[y][d] :
        Finite(shape.demand_y_d_h[y][d][h])

\* C16: after the correction step of get_demand_shape, for every requested
\* year the sum over the representative days of occurrence_ratio * 365 * (sum
\* over hours of demand) equals the historical annual total of the year, with
\* no unit-scale factor left.
C16_CorrectionReproducesTotal ==
    (result.op = "get_demand_shape" /\ result.ret.tag = "return") =>
        \A y \in YEARS :
            /\ ShapeFinite(result.ret.value, y)
            /\ AnnualisedDemand(result.ret.value, y) =
                  Lowest(HistoricalDemand("dem_elec")[y].v, 1)

\* the uncorrected clustered annual total of the profile under the labelling
\* of the last call
UncorrectedTotal ==
    LET clusters == get_k_means_hourly_demand(result.days, params[ISO3].load_prof,
                                              result.cluster_labels).value
    IN  SumOf(result.days,
              [i \in result.days |->
                  Product(Product(SumOf(DOMAIN clusters.hourly_dem[i], clusters.hourly_dem[i]),
                                  Num(365)), clusters.cluster_ratios[i])])

Clustered ==
    ~Raises(get_k_means_hourly_demand(result.days, params[ISO3].load_prof,
                                      result.cluster_labels))

\* C17: when the uncorrected clustered annual total of a year is zero,
\* get_demand_shape reports a clustering-degenerate error of its own before
\* dividing; it returns no infinite or NaN demand.
C17_DegenerateClusteringReported ==
    (result.op = "get_demand_shape" /\ Clustered /\ UncorrectedTotal = Ratio(0, 1)) =>
        result.ret = Raise("ClusteringDegenerate")

(***************************************************************************)
(* Claims on the day weights.                                              *)
(***************************************************************************)
DayWeightSum(y) == SumOf(model.D, [d \in model.D |-> model.DL[<<y, d>>]])

ForEachEntity(m, order, step) ==
    LET failing == {i \in 1 .. Len(order) : Raises(step[order[i]])}
        k == IF failing = {} THEN Len(order) + 1
             ELSE CHOOSE i \in failing : \A j \in failing : i <= j
        done == {order[i] : i \in 1 .. (k - 1)}
        pinned == [v \in UNION {DOMAIN step[e].value : e \in done} |-> step[v.e].value[v]]
    IN  [model |-> [m EXCEPT !.fixed = FixAll(m.fixed, pinned)],
         ret   |-> IF failing = {} THEN Return(None) ELSE step[order[k]]]

\* model.Y0.first()
Y0First(m) == CHOOSE y \in m.Y0 : TRUE

\* model_generic/generic_constraints.py
init_activity(m, entity_list) ==
    LET hours_in_year == 365 * 24
        y_0 == Y0First(m)
    IN  ForEachEntity(m, entity_list,
            [e \in {entity_list[i] : i \in 1 .. Len(entity_list)} |->
                LET act == get_annual(e, "actual_activity", y_0)
                IN  IF Raises(act) THEN act
                    ELSE Return([v \in {a(e, y_0, d, h) : d \in m.D, h \in m.H} |->
                                    Quotient(act.value, hours_in_year)])])

\* the years `for y in model.Years: ...; if y == enable_year: break` visits
YearsUntil(m, enable_year) ==
    {y \in m.Y : \A y1 \in m.Y : y1 < y => y1 # enable_year}

\* model_utils/generic.py: enable_year is the boolean check_cnf returns,
\* compared with the year as 0 or 1
generic_init_activity(m, entity_list) ==
    LET hours_in_year == 365 * 24
        y_0 == Y0First(m)
    IN  ForEachEntity(m, entity_list,
            [entity_id \in {entity_list[i] : i \in 1 .. Len(entity_list)} |->
                LET enable_year == check_cnf(entity_id, "enable_year")
                    act == get_annual(entity_id, "actual_activity", y_0)
                IN  IF Raises(enable_year) THEN enable_year
                    ELSE IF y_0 = AsInt(enable_year.value) /\ Raises(act) THEN act
                    ELSE Return([v \in {a(entity_id, y, d, h) :
                                          y \in YearsUntil(m, AsInt(enable_year.value)),
                                          d \in m.D, h \in m.H} |->
                                    IF v.y = y_0 /\ v.y = AsInt(enable_year.value)
                                    THEN Quotient(act.value, hours_in_year)
                                    ELSE Ratio(0, 1)])])

\* model_generic/generic_constraints.py
init_capacity(m, entity_list) ==
    LET y_0 == Y0First(m)
    IN  ForEachEntity(m, entity_list,
            [entity_id \in {entity_list[i] : i \in 1 .. Len(entity_list)} |->
                LET cap == check_cnf(entity_id, "enable_capacity")
                    cap_enable == get_annual(entity_id, "actual_capacity", y_0)
                IN  IF Raises(cap) THEN cap
                    ELSE IF ~Truthy(cap.value) THEN Return(<<>>)
                    ELSE IF Raises(cap_enable) THEN cap_enable
                    ELSE IF entity_id \notin m.Caps THEN Raise("KeyError")
                    ELSE Return([v \in {cnew("CH", entity_id, y_0), ctot("CH", entity_id, y_0)} |->
                                    IF v.name = "cnew" THEN Ratio(0, 1)
                                    ELSE Quotient(cap_enable.value, 1)])])

\* model_utils/generic.py: the year of the historical capacity is the
\* boolean check_cnf returns
generic_init_capacity(m, entity_list) ==
    ForEachEntity(m, entity_list,
        [entity_id \in {entity_list[i] : i \in 1 .. Len(entity_list)} |->
            LET cap == check_cnf(entity_id, "enable_capacity")
                enable_year == check_cnf(entity_id, "enable_year")
                cap_enable == get_annual(entity_id, "actual_capacity",
                                         AsInt(enable_year.value))
            IN  IF Raises(cap) THEN cap
                ELSE IF ~Truthy(cap.value) THEN Return(<<>>)
                ELSE IF Raises(enable_year) THEN enable_year
                ELSE IF Raises(cap_enable) THEN cap_enable
                ELSE IF entity_id \notin m.Caps THEN Raise("KeyError")
                ELSE Return([v \in UNION {{cnew("CH", entity_id, y), cret("CH", entity_id, y),
                                            ctot("CH", entity_id, y)} :
                                              y \in YearsUntil(m, AsInt(enable_year.value))} |->
                                IF v.name = "ctot" /\ v.y = AsInt(enable_year.value)
                                THEN Quotient(cap_enable.value, 1)
                                ELSE Ratio(0, 1)])])


(***************************************************************************)
(* Initialisation runs on a built model, once for the entities of a        *)
(* sector.  The hour slices are np.arange(0, 24, TIMESLICE) for a slice    *)
(* length that divides the day; the day weights are the static ones or     *)
(* unequal ones the demand initialisation left.  conv_a takes every        *)
(* combination of capacity option, enable year and historical series.      *)
(***************************************************************************)
MinTimeslice == 6
TimeSlices == {ts \in MinTimeslice .. 24 : 24 % ts = 0}
HoursOf(ts) == {h \in 0 .. 23 : h % ts = 0}

DayWeights(m) ==
    {m.DL,
     [yd \in m.Y \X m.D |-> IF yd[2] = 0 THEN Product(Ratio(2, 3), Num(365))
                            ELSE Product(Lowest(1, 3 * (Cardinality(m.D) - 1)), Num(365))]}

HistoricalSeries(base) ==
    {[y \in YEARS |-> Num(base + (y - FirstYear))],
     [y \in YEARS |-> IF y = FirstYear THEN NaN ELSE Num(base + (y - FirstYear))]}

StartTable(cap, ey, activity, capacity) ==
    [configuration |-> Dict([p \in {"enable_capacity", "enable_year"} |->
                                IF p = "enable_capacity" THEN cap ELSE ey]),
     constant      |-> Dict([p \in {"lifetime"} |-> Num(1)]),
     constant_fxe  |-> Dict([pf \in EfficiencyParams \X Flows |-> Num(1)]),
     annual        |-> Dict([py \in {"actual_activity", "actual_capacity",
                                     "initial_retired_capacity", "buildrate"} \X YEARS |->
                                IF py[1] = "actual_activity" THEN activity[py[2]]
                                ELSE IF py[1] = "actual_capacity" THEN capacity[py[2]]
                                ELSE IF py[1] = "buildrate" THEN Num(5)
                                ELSE Num(0)])]

InitStart ==
    /\ params \in {[e \in Entities |->
                      IF e = "conv_a" THEN StartTable(cap, ey, activity, capacity)
                      ELSE IF e = "conv_b"
                      THEN StartTable(Num(1), Num(FirstYear), Filled(8760), Filled(10))
                      ELSE StartTable(NaN, NaN, Filled(100), Filled(0))] :
                      cap \in {NaN, Num(1)},
                      ey \in {Num(FirstYear), Num(FirstYear + 1)},
                      activity \in HistoricalSeries(100),
                      capacity \in HistoricalSeries(10)}
    /\ fxe = BuiltTables
    /\ model \in {[init_model.value EXCEPT !.H = HoursOf(ts), !.HL = ts, !.DL = dl] :
                     ts \in TimeSlices, dl \in DayWeights(init_model.value)}
    /\ result = NoCall

\* the sets a sector hands to its initialisation
EntityLists(m) == {m.E, m.Pros}
Orders(S) == {s \in [1 .. Cardinality(S) -> S] : \A i, j \in DOMAIN s : s[i] = s[j] => i = j}

\* no variable of that name is pinned for an entity of the list
Unpinned(m, entity_list, names) ==
    \A v \in DOMAIN m.fixed : ~(v.name \in names /\ v.e \in entity_list)

FixActivity ==
    \E entity_list \in EntityLists(model) : \E order \in Orders(entity_list) :
        /\ Unpinned(model, entity_list, {"a"})
        /\ LET r == init_activity(model, order)
           IN  /\ model' = r.model
               /\ result' = [op |-> "init_activity", entity_list |-> entity_list,
                             ret |-> r.ret]
        /\ UNCHANGED <<params, fxe>>

GenericFixActivity ==
    \E entity_list \in EntityLists(model) : \E order \in Orders(entity_list) :
        /\ Unpinned(model, entity_list, {"a"})
        /\ LET r == generic_init_activity(model, order)
           IN  /\ model' = r.model
               /\ result' = [op |-> "generic.init_activity", entity_list |-> entity_list,
                             ret |-> r.ret]
        /\ UNCHANGED <<params, fxe>>

FixCapacity ==
    \E entity_list \in EntityLists(model) : \E order \in Orders(entity_list) :
        /\ Unpinned(model, entity_list, {"ctot", "cnew", "cret"})
        /\ LET r == init_capacity(model, order)
           IN  /\ model' = r.model
               /\ result' = [op |-> "init_capacity", entity_list |-> entity_list,
                             ret |-> r.ret]
        /\ UNCHANGED <<params, fxe>>

GenericFixCapacity ==
    \E entity_list \in EntityLists(model) : \E order \in Orders(entity_list) :
        /\ Unpinned(model, entity_list, {"ctot", "cnew", "cret"})
        /\ LET r == generic_init_capacity(model, order)
           IN  /\ model' = r.model
               /\ result' = [op |-> "generic.init_capacity", entity_list |-> entity_list,
                             ret |-> r.ret]
        /\ UNCHANGED <<params, fxe>>

NextStart ==
    \/ FixActivity \/ GenericFixActivity
    \/ FixCapacity \/ GenericFixCapacity
    \/ CCapTransfer \/ CCapRetirement \/ GenericCCapBuildrate

SpecStart == InitStart /\ [][NextStart]_vars

(***************************************************************************)
(* Claims on the initialisation.                                           *)
(***************************************************************************)
ActivityInitOps == {"init_activity", "generic.init_activity"}
Stored(e, parameter, y) ==
    /\ HasKey(e, "annual", <<parameter, y>>)
    /\ ~isnan(params[e]["annual"][<<parameter, y>>])

\* e_total_annual_activity with the pinned values in the place of the variables
AnnualisedActivity(e, y) ==
    LET total == e_total_annual_activity(model, e, y)
    IN  SumOf(total.terms,
              [t \in total.terms |-> Product(Ratio(t.num, t.den), model.fixed[t.var])])

\* C19: after init_activity over a list of entities whose historical activity
\* of the first modelled year is stored, the activity of every (day, hour) of
\* that year is pinned to actual_activity / 8760 and the annualised total
\* sum_day DL * sum_hour HL * activity is the historical annual value, for
\* every hour-slice length dividing 24 and every day weights summing to 365.
C19_FirstYearActivityPinned ==
    (/\ result.op \in ActivityInitOps
     /\ \A e \in result.entity_list : Stored(e, "actual_activity", FirstYear))
    => /\ result.ret = Return(None)
       /\ \A e \in result.entity_list :
             LET actual == params[e]["annual"][<<"actual_activity", FirstYear>>]
             IN  /\ \A d \in model.D, h \in model.H :
                       /\ a(e, FirstYear, d, h) \in DOMAIN model.fixed
                       /\ model.fixed[a(e, FirstYear, d, h)] = Quotient(actual, 8760)
                 /\ AnnualisedActivity(e, FirstYear) = Quotient(actual, 1)


CapacityInitOps == {"init_capacity", "generic.init_capacity"}
LifecycleOps    == {"c_cap_transfer", "c_cap_retirement"}
CapacityNames   == {"ctot", "cnew", "cret"}

\* the entities with the capacity option and an enable-year in the table
Phased == {e \in model.E : /\ params[e]["configuration"]["enable_capacity"] # NaN
                           /\ params[e]["configuration"]["enable_year"] # NaN}
EnableYearOf(e) == params[e]["configuration"]["enable_year"].v

PinnedTo(v, x) == v \in DOMAIN model.fixed /\ model.fixed[v] = x

\* C20: a capacity-enabled entity is disabled before its enable-year, fixed
\* at it and free after it.  After init_capacity, capacity_total, new and
\* retired of the years before the enable-year are pinned to 0, capacity_total
\* of the enable-year is pinned to the historical capacity of that year and
\* no capacity variable of a later year is pinned; the transfer, retirement
\* and build-rate generators skip the years before the enable-year and the
\* transfer and retirement generators give a constraint for every later year.
C20_CapacityPhases ==
    /\ (/\ result.op \in CapacityInitOps
        /\ \A e \in Phased \cap result.entity_list :
              Stored(e, "actual_capacity", EnableYearOf(e)))
       => /\ result.ret = Return(None)
          /\ \A e \in Phased \cap result.entity_list : \A y \in model.Y :
                /\ y < EnableYearOf(e) =>
                      /\ PinnedTo(ctot("CH", e, y), Ratio(0, 1))
                      /\ PinnedTo(cnew("CH", e, y), Ratio(0, 1))
                      /\ PinnedTo(cret("CH", e, y), Ratio(0, 1))
                /\ y = EnableYearOf(e) =>
                      PinnedTo(ctot("CH", e, y),
                               Quotient(params[e]["annual"][<<"actual_capacity", y>>], 1))
                /\ y > EnableYearOf(e) =>
                      \A v \in {ctot("CH", e, y), cnew("CH", e, y), cret("CH", e, y)} :
                          v \notin DOMAIN model.fixed
    /\ result.op \in LifecycleOps \cup {"generic.c_cap_buildrate"} =>
          \A e \in Phased : \A y \in model.Y :
              LET ret == IF result.op \in LifecycleOps THEN result.ret[<<"CH", e, y>>]
                         ELSE result.ret[<<e, y>>]
              IN  /\ y < EnableYearOf(e) => ret = Skip
                  /\ (y > EnableYearOf(e) /\ result.op \in LifecycleOps) =>
                        ret.tag = "constraint"

(***************************************************************************)
(* Trade sector (sectors/trade.py).  configure_sector runs _sets,          *)
(* _variables, _constraints and _initialise in that order; a component the *)
(* sector declared is a field of the model.  A trade entity has an import  *)
(* and an export activity next to its activity.                            *)
(***************************************************************************)
TradeIds == {"trd_a", "trd_b"}            \* the ids that start with GROUP_ID "trd_"

aimp(e, y, d, h) == [name |-> "aimp", e |-> e, y |-> y, d |-> d, h |-> h]
aexp(e, y, d, h) == [name |-> "aexp", e |-> e, y |-> y, d |-> d, h |-> h]

\* model.<name> = <component> for every name of components
Declare(m, components) ==
    [k \in (DOMAIN m) \cup (DOMAIN components) |->
        IF k \in DOMAIN components THEN components[k] ELSE m[k]]

trade_sets(m) ==
    LET trades == ENTITIES \cap TradeIds
        imp == build_cnf_set(trades, "enable_import")
        exp == build_cnf_set(trades, "enable_export")
    IN  IF Raises(imp) THEN imp
        ELSE IF Raises(exp) THEN exp
        ELSE Return(Declare(m, [Trades    |-> trades,
                                TradesImp |-> imp.value.s,
                                TradesExp |-> exp.value.s,
                                TradesFoE |-> {fe \in m.FoE : fe[2] \in trades},
                                TradesFiE |-> {fe \in m.FiE : fe[2] \in trades}]))

trade_variables(m) ==
    Declare(m, [aimp |-> m.Trades \X m.Y \X m.D \X m.H,
                aexp |-> m.Trades \X m.Y \X m.D \X m.H])

_c_activity_setup_pins_on_import(e, y, d, h) ==
    LET imp == check_cnf(e, "enable_import")
    IN  IF Raises(imp) \/ Truthy(imp.value) THEN {}
        ELSE {aimp(e, y, d, h), aexp(e, y, d, h)}

\* the variables _c_activity_setup pins on its way, all to 0
_c_activity_setup_pins(e, y, d, h) ==
    LET imp == check_cnf(e, "enable_import")
        exp == check_cnf(e, "enable_export")
    IN  (IF ~Raises(imp) /\ ~Truthy(imp.value) THEN {aimp(e, y, d, h)} ELSE {})
        \cup (IF ~Raises(imp) /\ ~Raises(exp) /\ ~Truthy(exp.value)
              THEN {aexp(e, y, d, h)} ELSE {})

_c_activity_setup(m, e, y, d, h) ==
    LET imp == check_cnf(e, "enable_import")
        exp == check_cnf(e, "enable_export")
    IN  IF Raises(imp) THEN imp
        ELSE IF Raises(exp) THEN exp
        ELSE Constraint(Sum({a(e, y, d, h)}), "==",
                        Sum({aimp(e, y, d, h), aexp(e, y, d, h)}))

\* model.trd_c_act_setup = pyo.Constraint(model.Trades, model.Y, model.D, model.H,
\*                                        rule=_c_activity_setup)
trade_constraints(m) ==
    LET index == m.Trades \X m.Y \X m.D \X m.H
        rule  == [i \in index |-> _c_activity_setup(m, i[1], i[2], i[3], i[4])]
        pins  == UNION {_c_activity_setup_pins(i[1], i[2], i[3], i[4]) : i \in index}
    IN  IF \E i \in index : Raises(rule[i])
        THEN CHOOSE r \in {rule[i] : i \in index} : Raises(r)
        ELSE Return(Declare([m EXCEPT !.fixed = FixAll(m.fixed, [v \in pins |-> Ratio(0, 1)])],
                            [trd_c_act_setup |-> rule]))

(***************************************************************************)
(* Trade configurations: trd_a takes every combination of missing, empty   *)
(* and set import and export options; trd_b has both options in the table. *)
(***************************************************************************)
TradeTable(cap, imp, exp) ==
    [configuration |-> Dict([p \in {"enable_capacity", "enable_year",
                                    "enable_import", "enable_export"} |->
                                IF p = "enable_capacity" THEN cap
                                ELSE IF p = "enable_year" THEN Num(FirstYear)
                                ELSE IF p = "enable_import" THEN imp ELSE exp]),
     constant      |-> Dict([p \in {"lifetime"} |-> NaN]),
     constant_fxe  |-> Dict([pf \in EfficiencyParams \X {"elec"} |-> Num(1)]),
     annual        |-> Dict([py \in {"actual_capacity"} \X YEARS |-> Num(10)])]

TradeFxe ==
    [FiE |-> [index |-> TradeIds \cup Demands, columns |-> {"elec"},
              cells |-> {<<"trd_a", "elec">>, <<"dem_elec", "elec">>}],
     FoE |-> [index |-> TradeIds, columns |-> {"elec"},
              cells |-> {<<"trd_a", "elec">>, <<"trd_b", "elec">>}]]

InitTrade ==
    /\ params \in {[e \in TradeIds \cup Demands |->
                      IF e = "trd_a" THEN TradeTable(cap, ia, ea)
                      ELSE IF e = "trd_b" THEN TradeTable(Num(1), ib, eb)
                      ELSE TradeTable(NaN, NaN, NaN)] :
                      cap \in {NaN, Num(1)},
                      ia \in {Missing, NaN, Num(1)}, ea \in {Missing, NaN, Num(1)},
                      ib \in {NaN, Num(1)}, eb \in {NaN, Num(1)}}
    /\ fxe = TradeFxe
    /\ model = init_model.value
    /\ result = NoCall

TradeSets ==
    /\ "Trades" \notin DOMAIN model
    /\ LET r == trade_sets(model)
       IN  /\ model' = IF Raises(r) THEN model ELSE r.value
           /\ result' = [op |-> "trade._sets",
                         ret |-> IF Raises(r) THEN r ELSE Return(ModelRef)]
    /\ UNCHANGED <<params, fxe>>

TradeVariables ==
    /\ "Trades" \in DOMAIN model
    /\ "aimp" \notin DOMAIN model
    /\ model' = trade_variables(model)
    /\ result' = [op |-> "trade._variables", ret |-> Return(ModelRef)]
    /\ UNCHANGED <<params, fxe>>

TradeConstraints ==
    /\ "aimp" \in DOMAIN model
    /\ "trd_c_act_setup" \notin DOMAIN model
    /\ LET r == trade_constraints(model)
       IN  /\ model' = IF Raises(r) THEN model ELSE r.value
           /\ result' = [op |-> "trade._constraints",
                         ret |-> IF Raises(r) THEN r ELSE Return(ModelRef)]
    /\ UNCHANGED <<params, fxe>>

\* gen_con.init_capacity(model, model.Trades)
TradeInitialise ==
    /\ "trd_c_act_setup" \in DOMAIN model
    /\ \E order \in Orders(model.Trades) :
          /\ Unpinned(model, model.Trades, {"ctot", "cnew", "cret"})
          /\ LET r == init_capacity(model, order)
             IN  /\ model' = r.model
                 /\ result' = [op |-> "trade._initialise", ret |-> r.ret]
    /\ UNCHANGED <<params, fxe>>

NextTrade == TradeSets \/ TradeVariables \/ TradeConstraints \/ TradeInitialise

SpecTrade == InitTrade /\ [][NextTrade]_vars

(***************************************************************************)
(* Claims on the trade sector.                                             *)
(***************************************************************************)
OptionSet(e, option) ==
    /\ HasKey(e, "configuration", option)
    /\ ~isnan(params[e]["configuration"][option])

\* C21: once the trade constraints are built, every trade entity has the
\* constraint activity == import_activity + export_activity at every (year,
\* day, hour); import_activity is pinned to 0 exactly when enable_import is
\* not set and export_activity is pinned to 0 exactly when enable_export is
\* not set.
C21_TradeActivitySplit ==
    "trd_c_act_setup" \in DOMAIN model =>
        /\ model.Trades = ENTITIES \cap TradeIds
        /\ \A e \in model.Trades, y \in model.Y, d \in model.D, h \in model.H :
              /\ model.trd_c_act_setup[<<e, y, d, h>>] =
                    Constraint(Sum({a(e, y, d, h)}), "==",
                               Sum({aimp(e, y, d, h), aexp(e, y, d, h)}))
              /\ PinnedTo(aimp(e, y, d, h), Ratio(0, 1)) <=> ~OptionSet(e, "enable_import")
              /\ PinnedTo(aexp(e, y, d, h), Ratio(0, 1)) <=> ~OptionSet(e, "enable_export")
              /\ aimp(e, y, d, h) \in DOMAIN model.fixed <=> ~OptionSet(e, "enable_import")
              /\ aexp(e, y, d, h) \in DOMAIN model.fixed <=> ~OptionSet(e, "enable_export")

\* an import-only and an export-only trade entity went through the build
C21_Witness ==
    /\ "trd_c_act_setup" \in DOMAIN model
    /\ OptionSet("trd_a", "enable_import") /\ ~OptionSet("trd_a", "enable_export")
    /\ ~OptionSet("trd_b", "enable_import") /\ OptionSet("trd_b", "enable_export")
    /\ PinnedTo(aexp("trd_a", FirstYear, 0, 0), Ratio(0, 1))
    /\ PinnedTo(aimp("trd_b", FirstYear, 0, 0), Ratio(0, 1))

\* C22: a trade entity with neither enable_import nor enable_export set makes
\* the configuration of the trade sector fail; no model is built in which the
\* entity has its activity constraint and both activities pinned to 0.
C22_NeitherImportNorExportRejected ==
    \A e \in ENTITIES \cap TradeIds :
        (~OptionSet(e, "enable_import") /\ ~OptionSet(e, "enable_export")) =>
            "trd_c_act_setup" \notin DOMAIN model

(***************************************************************************)
(* Claims on the incidence sets.                                           *)
(***************************************************************************)
CellPairs(io_df) == {<<c[2], c[1]>> : c \in io_df.cells}

\* C23: init_model succeeds for every pair of tables, also when a flow has
\* cells in only one of them, and the incidence sets are the non-empty cells:
\* (f, e) is in FiE iff the cell of entity e and flow f of the FiE table is
\* non-empty, likewise for FoE, and FxE is the union of FiE and FoE.
C23_IncidenceSetsAreCells ==
    result.op = "init_model" =>
        /\ result.ret.tag = "return"
        /\ model.FiE = CellPairs(fxe.FiE)
        /\ model.FoE = CellPairs(fxe.FoE)
        /\ model.FxE = model.FiE \cup model.FoE

(***************************************************************************)
(* Sector hooks.  configure_sector of a sector declares the components of  *)
(* the sector on the model the assembler built; reading a component that   *)
(* is not declared is an AttributeError, declaring a name twice a          *)
(* RuntimeError.  The electricity sector (sectors/electricity.py) builds   *)
(* the peak and base capacity requirements of the flow OUTFLOW_ID.         *)
(***************************************************************************)
ElecIds    == {"conv_elec_a"}             \* the ids that start with one of GROUP_IDS
OUTFLOW_ID == "elecsupply"

\* sum(model.ctot[e, y] * get_fxe(e, "output_efficiency", f, y) * get(e, ratio, y)
\*     for f, e in model.FoE if f == flow_id and e in members);
\* the sum of the imports has no ratio
capacity_sum(m, flow_id, y, members, ratio) ==
    LET es  == {fe[2] : fe \in {x \in m.FoE : x[1] = flow_id /\ x[2] \in members}}
        eff == [e \in es |-> get_fxe(e, "output_efficiency", flow_id, y)]
        k   == [e \in es |-> IF ratio = "" THEN Return(Num(1)) ELSE get(e, ratio, y)]
    IN  IF \E e \in es : Raises(eff[e]) \/ Raises(k[e]) THEN Raise("KeyError")
        ELSE IF \E e \in es : eff[e].value = None \/ k[e].value = None THEN Raise("TypeError")
        ELSE Return(Lin({Term(ctot("CH", e, y), eff[e].value.v * k[e].value.v, 1) : e \in es}, 0))

\* the comprehension evaluates model.Trades for the pairs of the flow
ReadsTrades(m, flow_id) == \E fe \in m.FoE : fe[1] = flow_id

_c_cap_peak(m, y) ==
    LET flow_id == OUTFLOW_ID
        cap_margin == get(flow_id, "peak_capacity_margin", y)
        peak_power == get_annual(flow_id, "peak_capacity_demand", y)
    IN  IF Raises(cap_margin) THEN cap_margin
        ELSE IF cap_margin.value = None THEN Raise("ValueError")
        ELSE IF Raises(peak_power) THEN peak_power
        ELSE IF ReadsTrades(m, flow_id) /\ "Trades" \notin DOMAIN m THEN Raise("AttributeError")
        ELSE LET pk_cap_sys == capacity_sum(m, flow_id, y,
                                   IF ReadsTrades(m, flow_id) THEN m.Caps \ m.Trades ELSE {},
                                   "peak_ratio")
             IN  IF Raises(pk_cap_sys) THEN pk_cap_sys
                 ELSE IF pk_cap_sys.value.terms = {}
                 THEN Raise("ValueError")      \* 0 >= number is a python bool
                 ELSE Constraint(pk_cap_sys.value, ">=",
                                 Lin({}, (1 + cap_margin.value.v) * peak_power.value.v))

_c_cap_base(m, y) ==
    LET flow_id == OUTFLOW_ID
        base_power == get_annual(flow_id, "base_capacity_demand", y)
    IN  IF Raises(base_power) THEN base_power
        ELSE IF ReadsTrades(m, flow_id) /\ "Trades" \notin DOMAIN m THEN Raise("AttributeError")
        ELSE LET base_cap_sys == capacity_sum(m, flow_id, y,
                                     IF ReadsTrades(m, flow_id) THEN m.Caps \ m.Trades ELSE {},
                                     "lf_min")
                 imports == capacity_sum(m, flow_id, y,
                                IF ReadsTrades(m, flow_id) THEN m.Trades \cap m.Caps ELSE {}, "")
             IN  IF Raises(base_cap_sys) THEN base_cap_sys
                 ELSE IF Raises(imports) THEN imports
                 ELSE IF base_cap_sys.value.terms = {} THEN Skip
                 ELSE Constraint(Lin({}, base_power.value.v), ">=",
                                 Lin(base_cap_sys.value.terms
                                       \cup {Term(t.var, -t.num, t.den) : t \in imports.value.terms},
                                     0))

electricity_sets(m) ==
    LET elec_entities == ENTITIES \cap ElecIds
    IN  Declare(m, [Elecs    |-> elec_entities,
                    ElecsVRE |-> {},
                    ElecsFoE |-> {fe \in m.FoE : fe[2] \in elec_entities},
                    ElecsFiE |-> {fe \in m.FiE : fe[2] \in elec_entities}])

\* a step of configure_sector on the outcome of the steps before it
Then(r, step(_)) == IF Raises(r.ret) THEN r ELSE step(r.model)
Done(m) == [model |-> m, ret |-> Return(None)]
Outcome(m, r) == IF Raises(r) THEN [model |-> m, ret |-> r] ELSE Done(r.value)

\* model.<name> = pyo.Constraint(model.Y, rule=<rule>)
YearlyConstraint(m, name, rule) ==
    IF \E y \in m.Y : Raises(rule[y])
    THEN [model |-> m, ret |-> CHOOSE r \in {rule[y] : y \in m.Y} : Raises(r)]
    ELSE Done(Declare(m, [c \in {name} |-> rule]))

electricity_constraints(m) ==
    Then(YearlyConstraint(m, "elec_c_cap_peak", [y \in m.Y |-> _c_cap_peak(m, y)]),
         LAMBDA m1 : YearlyConstraint(m1, "elec_c_cap_base", [y \in m1.Y |-> _c_cap_base(m1, y)]))

\* the set of a sector in the order the initialisation walks it
WalkOf(S) == CHOOSE order \in Orders(S) : TRUE

electricity_initialise(m) ==
    Then(init_activity(m, WalkOf(m.Elecs)), LAMBDA m1 : init_capacity(m1, WalkOf(m1.Elecs)))

\* sectors/electricity.py configure_sector: _sets, _constraints (the rules of
\* the generic library read the sets of the assembler and of this sector
\* only), _initialise
electricity_configure_sector(m) ==
    IF "Elecs" \in DOMAIN m THEN [model |-> m, ret |-> Raise("RuntimeError")]
    ELSE Then(Then(Done(electricity_sets(m)), electricity_constraints), electricity_initialise)

\* sectors/trade.py configure_sector
trade_configure_sector(m) ==
    IF "Trades" \in DOMAIN m THEN [model |-> m, ret |-> Raise("RuntimeError")]
    ELSE Then(Then(Then(Outcome(m, trade_sets(m)),
                        LAMBDA m1 : Done(trade_variables(m1))),
                   LAMBDA m2 : Outcome(m2, trade_constraints(m2))),
              LAMBDA m3 : init_capacity(m3, WalkOf(m3.Trades)))

(***************************************************************************)
(* Hook configurations: an electricity producer and two trade links on one *)
(* flow, which is the supply flow of the electricity sector or another     *)
(* flow; the peak margin of the supply flow is set or empty.               *)
(***************************************************************************)
HookTable(cap, imp, exp) ==
    [configuration |-> Dict([p \in {"enable_capacity", "enable_year",
                                    "enable_import", "enable_export"} |->
                                IF p = "enable_capacity" THEN cap
                                ELSE IF p = "enable_year" THEN Num(FirstYear)
                                ELSE IF p = "enable_import" THEN imp ELSE exp]),
     constant      |-> Dict([p \in {"lifetime"} |-> NaN]),
     constant_fxe  |-> Dict([pf \in EfficiencyParams \X {OUTFLOW_ID, "heat"} |-> Num(1)]),
     annual        |-> Dict([py \in {"actual_capacity", "actual_activity",
                                     "peak_ratio", "lf_min"} \X YEARS |->
                                IF py[1] = "actual_capacity" THEN Num(10)
                                ELSE IF py[1] = "actual_activity" THEN Num(8760)
                                ELSE Num(1)])]

SupplyTable(margin) ==
    [configuration |-> <<>>, constant |-> <<>>, constant_fxe |-> <<>>,
     annual        |-> Dict([py \in {"peak_capacity_margin", "peak_capacity_demand",
                                     "base_capacity_demand"} \X YEARS |->
                                IF py[1] = "peak_capacity_margin" THEN margin
                                ELSE IF py[1] = "peak_capacity_demand" THEN Num(4)
                                ELSE Num(2)])]

HookFxe(flow) ==
    [FiE |-> [index |-> TradeIds \cup Demands, columns |-> {flow},
              cells |-> {<<"trd_b", flow>>, <<"dem_elec", flow>>}],
     FoE |-> [index |-> TradeIds \cup ElecIds, columns |-> {flow},
              cells |-> {<<"trd_a", flow>>, <<"conv_elec_a", flow>>}]]

InitHooks ==
    /\ params \in {[e \in TradeIds \cup ElecIds \cup Demands \cup {OUTFLOW_ID} |->
                      IF e = "trd_a" THEN HookTable(ca, ia, ea)
                      ELSE IF e = "trd_b" THEN HookTable(NaN, ib, Num(1))
                      ELSE IF e = "conv_elec_a" THEN HookTable(ce, NaN, NaN)
                      ELSE IF e = OUTFLOW_ID THEN SupplyTable(margin)
                      ELSE HookTable(NaN, NaN, NaN)] :
                      ca \in {NaN, Num(1)}, ce \in {NaN, Num(1)},
                      ia \in {NaN, Num(1)}, ea \in {NaN, Num(1)}, ib \in {NaN, Num(1)},
                      margin \in {NaN, Num(1)}}
    /\ fxe \in {HookFxe(flow) : flow \in {OUTFLOW_ID, "heat"}}
    /\ model = init_model.value
    /\ result = NoCall

\* a hook runs once, and no hook runs after one failed
Running == IF result = NoCall THEN TRUE ELSE ~Raises(result.ret)

ConfigureElectricity ==
    /\ Running /\ "Elecs" \notin DOMAIN model
    /\ LET r == electricity_configure_sector(model)
       IN  /\ model' = r.model
           /\ result' = [op |-> "electricity.configure_sector", ret |-> r.ret]
    /\ UNCHANGED <<params, fxe>>

ConfigureTrade ==
    /\ Running /\ "Trades" \notin DOMAIN model
    /\ LET r == trade_configure_sector(model)
       IN  /\ model' = r.model
           /\ result' = [op |-> "trade.configure_sector", ret |-> r.ret]
    /\ UNCHANGED <<params, fxe>>

NextHooks == ConfigureElectricity \/ ConfigureTrade

SpecHooks == InitHooks /\ [][NextHooks]_vars

(***************************************************************************)
(* Claims on the sector hooks.                                             *)
(***************************************************************************)
HookOps == {"electricity.configure_sector", "trade.configure_sector"}

\* C24: the sector hooks are independent of each other: no hook fails on a
\* component that another hook declares (read before it is declared, or
\* declared twice), and once both hooks ran the model is the one that the
\* order trade, electricity builds, whatever the order was.
C24_HooksIndependent ==
    result.op \in HookOps =>
        /\ result.ret \notin {Raise("AttributeError"), Raise("RuntimeError")}
        /\ ({"Elecs", "Trades"} \subseteq DOMAIN model /\ ~Raises(result.ret)) =>
              model = Then(trade_configure_sector(init_model.value),
                           electricity_configure_sector).model

(***************************************************************************)
(* Annual totals and cost.  The assembler declares the discount factors as *)
(* model.DISCRATE; the cost functions of the library read model.DISC.      *)
(***************************************************************************)
RECURSIVE np_power(_, _)
np_power(x, k) == IF k = 0 THEN Ratio(1, 1) ELSE Product(x, np_power(x, k - 1))

\* initialisation._discount_rates
_discount_rates(m, y) ==
    LET discount == get_const("country", "discount_factor")
    IN  IF Raises(discount) THEN discount
        ELSE IF discount.value = None THEN Raise("TypeError")
        ELSE Return(Divide(Num(1), np_power(Plus(Num(1), discount.value), y - Y0First(m))))

\* model.DISCRATE = pyo.Param(model.Y, initialize=_discount_rates)
init_discount_rates(m) ==
    IF \E y \in m.Y : Raises(_discount_rates(m, y))
    THEN CHOOSE r \in {_discount_rates(m, y) : y \in m.Y} : Raises(r)
    ELSE Return(Declare(m, [DISCRATE |-> [y \in m.Y |-> _discount_rates(m, y).value]]))

\* model_generic/generic_constraints.py: model.a is declared over
\* (entity, year, day, hour), so model.a[e, y, h] is no index of it
cost_variable_om(m, entity_list, years) ==
    LET cost == [ey \in entity_list \X years |-> get(ey[1], "cost_variable_om", ey[2])]
    IN  IF entity_list \X years = {} THEN Return(Lin({}, 0))
        ELSE IF "DISC" \notin DOMAIN m THEN Raise("AttributeError")
        ELSE IF \E ey \in DOMAIN cost : Raises(cost[ey]) THEN Raise("KeyError")
        ELSE IF \E ey \in DOMAIN cost : cost[ey].value = None THEN Raise("TypeError")
        ELSE IF m.H # {} THEN Raise("KeyError")
        ELSE Return(Lin({}, 0))

\* model_generic/generic_constraints.py
c_act_max_annual(m, e, y) ==
    LET max_act_annual == get_const(e, "max_activity_annual")
    IN  IF Raises(max_act_annual) THEN max_act_annual
        ELSE IF max_act_annual.value # None
        THEN Constraint(e_total_annual_activity(m, e, y), "<=",
                        Lin({}, max_act_annual.value.v))
        ELSE Skip

\* model_utils/generic.py
generic_c_act_max_annual(m, n, entity_id, y) ==
    LET max_act_annual == get_const(entity_id, "max_activity_annual")
        act_annual == Lin({TermOf(a(entity_id, y, d, h), m.DL[<<y, d>>]) :
                              d \in m.D, h \in m.H}, 0)
    IN  IF Raises(max_act_annual) THEN max_act_annual
        ELSE IF max_act_annual.value # None
        THEN Constraint(act_annual, "<=", Lin({}, max_act_annual.value.v))
        ELSE Skip

(***************************************************************************)
(* Cost configurations: conv_a takes every combination of annual ceiling   *)
(* and unit cost, the country a discount factor; the hour slices and the   *)
(* day weights vary as in the initialisation.                              *)
(***************************************************************************)
CostTable(ceiling, unit_cost) ==
    [configuration |-> Dict([p \in {"enable_capacity", "enable_year"} |->
                                IF p = "enable_capacity" THEN NaN ELSE Num(FirstYear)]),
     constant      |-> Dict([p \in {"lifetime", "max_activity_annual"} |->
                                IF p = "lifetime" THEN NaN ELSE ceiling]),
     constant_fxe  |-> Dict([pf \in EfficiencyParams \X Flows |-> Num(1)]),
     annual        |-> Dict([py \in {"actual_capacity", "cost_variable_om"} \X YEARS |->
                                IF py[1] = "actual_capacity" THEN Num(10) ELSE unit_cost])]

CountryTable(discount) ==
    [configuration |-> <<>>, constant_fxe |-> <<>>, annual |-> <<>>,
     constant      |-> Dict([p \in {"discount_factor"} |-> discount])]

InitCost ==
    /\ params \in {[e \in Entities \cup {"country"} |->
                      IF e = "conv_a" THEN CostTable(ceiling, unit_cost)
                      ELSE IF e = "country" THEN CountryTable(discount)
                      ELSE CostTable(Num(50), Num(3))] :
                      ceiling \in {Missing, NaN, Num(50)},
                      unit_cost \in {NaN, Num(3)},
                      discount \in {Num(0), Num(1)}}
    /\ fxe = BuiltTables
    /\ model \in {init_discount_rates(m).value :
                     m \in {[built EXCEPT !.H = HoursOf(ts), !.HL = ts, !.DL = dl] :
                               built \in {init_model.value}, ts \in TimeSlices,
                               dl \in DayWeights(init_model.value)}}
    /\ result = NoCall

\* gen_con.cost_variable_om(model, <entities of a sector>, model.Y)
CostVariableOm ==
    \E entity_list \in EntityLists(model) :
        /\ result' = [op |-> "cost_variable_om", entity_list |-> entity_list,
                      ret |-> cost_variable_om(model, entity_list, model.Y)]
        /\ UNCHANGED <<params, fxe, model>>

CActMaxAnnual ==
    /\ result' = [op |-> "c_act_max_annual",
                  ret |-> [i \in model.E \X model.Y |-> c_act_max_annual(model, i[1], i[2])]]
    /\ UNCHANGED <<params, fxe, model>>

GenericCActMaxAnnual ==
    /\ result' = [op |-> "generic.c_act_max_annual",
                  ret |-> [i \in model.E \X model.Y |->
                              generic_c_act_max_annual(model, "CH", i[1], i[2])]]
    /\ UNCHANGED <<params, fxe, model>>

NextCost == CostVariableOm \/ CActMaxAnnual \/ GenericCActMaxAnnual

SpecCost == InitCost /\ [][NextCost]_vars

(***************************************************************************)
(* Claims on the annual totals.                                            *)
(***************************************************************************)
\* sum_day DL[y, day] * sum_hour HL * activity[e, y, day, hour], times factor
AnnualisedTerms(e, y, factor) ==
    {TermOf(a(e, y, d, h), Product(factor, Product(model.DL[<<y, d>>], Num(model.HL)))) :
        d \in model.D, h \in model.H}

ConstantSet(e, parameter) ==
    /\ HasKey(e, "constant", parameter)
    /\ ~isnan(params[e]["constant"][parameter])

\* C25: the annual activity ceiling compares the time-weighted sum
\* sum_day DL * sum_hour HL * activity with the configured ceiling, and the
\* variable O&M cost of a list of entities is the sum over its entities and
\* years of discount_factor(y) * unit_variable_cost(e, y) * that sum.
C25_AnnualTotalsAreTimeWeighted ==
    /\ result.op \in {"c_act_max_annual", "generic.c_act_max_annual"} =>
          \A e \in model.E, y \in model.Y :
              ConstantSet(e, "max_activity_annual") =>
                  result.ret[<<e, y>>] =
                      Constraint(Lin(AnnualisedTerms(e, y, Ratio(1, 1)), 0), "<=",
                                 Lin({}, params[e]["constant"]["max_activity_annual"].v))
    /\ (/\ result.op = "cost_variable_om"
        /\ \A e \in result.entity_list, y \in model.Y : Stored(e, "cost_variable_om", y))
       => result.ret =
             Return(Lin(UNION {AnnualisedTerms(e, y,
                                   Product(model.DISCRATE[y],
                                           params[e]["annual"][<<"cost_variable_om", y>>])) :
                                  e \in result.entity_list, y \in model.Y}, 0))


InitOps == ActivityInitOps \cup CapacityInitOps

\* the last year of an entity's calibration slice: the first modelled year,
\* or the enable-year the table holds when that is later
SliceEnd(e) ==
    LET ey == params[e]["configuration"]["enable_year"]
    IN  IF ey # NaN /\ ey.v > FirstYear THEN ey.v ELSE FirstYear

\* C26: initialisation pins variables only in the calibration slice.  After
\* init_activity and init_capacity no activity, capacity_total, capacity_new
\* or capacity_retired variable of a year later than the first modelled year
\* (or later than the entity's enable-year) is fixed, whatever the entity's
\* enable-year is, inside or outside the modelled years.
C26_PinsOnlyCalibrationSlice ==
    result.op \in InitOps
    => \A v \in DOMAIN model.fixed :
          v.name \in {"a"} \cup CapacityNames => v.y <= SliceEnd(v.e)


(***************************************************************************)
(* Load-profile files (gen_utils/k_clustering.py, get_demand_shape).  The  *)
(* file store says whether data/zenodo/Electric/Profiles/ exists, which    *)
(* `<country>_<year>.csv` files it holds and whether the generic profile   *)
(* of _common/ exists.  A profile file is named by its country and year;   *)
(* sorted() orders the names of one country by year.                       *)
(***************************************************************************)
ProfileFile(country, y) == [country |-> country, year |-> y]
GenericLoadProfile == [country |-> "_common", year |-> 0]

ProfileFiles ==
    {ProfileFile(ISO3, FirstYear - 1), ProfileFile(ISO3, FirstYear),
     ProfileFile(ISO3, FirstYear + 2), ProfileFile("DEU", FirstYear)}

FileStores ==
    {[dir |-> TRUE, profiles |-> P, generic |-> g] : P \in SUBSET ProfileFiles, g \in BOOLEAN}
    \cup {[dir |-> FALSE, profiles |-> {}, generic |-> g] : g \in BOOLEAN}

\* the matrix a file holds: one row per historical day
ContentOf(file) ==
    [s \in 1 .. NumProfileDays |->
        [h \in HOURS |-> IF file = GenericLoadProfile THEN 500 * s
                         ELSE 1000 * s + 100 * (file.year - FirstYear + 1)]]

\* pd.read_csv(path)
read_csv(fs, file) ==
    IF file = GenericLoadProfile
    THEN (IF fs.generic THEN Return(file) ELSE Raise("FileNotFoundError"))
    ELSE IF fs.dir /\ file \in fs.profiles THEN Return(file)
    ELSE Raise("FileNotFoundError")

\* listdir(path), kept to the files with the country in their name
listdir(fs, country) ==
    IF fs.dir THEN Return({f \in fs.profiles : f.country = country})
    ELSE Raise("FileNotFoundError")

\* sorted(profiles)[0]
earliest_profile(profiles) ==
    IF profiles = {} THEN Raise("IndexError")
    ELSE Return(CHOOSE f \in profiles : \A g \in profiles : f.year <= g.year)

\* the try / except FileNotFoundError chain of get_demand_shape for one
\* year: the file whose matrix becomes load_prof
load_prof_of(fs, country, y) ==
    LET exact == read_csv(fs, ProfileFile(country, y))
    IN  IF ~Raises(exact) THEN exact
        ELSE LET profiles == listdir(fs, country)
                 first == earliest_profile(profiles.value)
             IN  IF Raises(profiles) THEN read_csv(fs, GenericLoadProfile)
                 ELSE IF Raises(first) THEN first
                 ELSE read_csv(fs, first.value)

\* get_demand_shape(years, days, hist_elec_demand) on a file store, with the
\* labelling KMeans returned: the years are visited in order and each reads
\* its own file
get_demand_shape_of_files(fs, years, days, hist_elec_demand, cluster_labels) ==
    LET file == [y \in years |-> load_prof_of(fs, ISO3, y)]
        shape == [y \in years |->
                    IF Raises(file[y]) THEN file[y]
                    ELSE get_demand_shape({y}, days, hist_elec_demand,
                                          ContentOf(file[y].value), cluster_labels)]
        failing == {y \in years : Raises(shape[y])}
    IN  [path |-> file,
         ret  |-> IF failing # {}
                  THEN shape[CHOOSE y \in failing : \A y1 \in failing : y <= y1]
                  ELSE Return([k_ratio_y_d  |-> [y \in years |-> shape[y].value.k_ratio_y_d[y]],
                               demand_y_d_h |-> [y \in years |-> shape[y].value.demand_y_d_h[y]]])]

InitProfile ==
    /\ params \in FileStores
    /\ fxe = NoTables
    /\ model = NoModel
    /\ result = NoCall

GetDemandShapeOfFiles ==
    \E years \in {{y} : y \in YEARS} \cup {YEARS} :
    \E cluster_labels \in Labellings(NDAYS) :
        /\ LET r == get_demand_shape_of_files(params, years, 0 .. (NDAYS - 1),
                                              Filled(50), cluster_labels)
           IN  result' = [op |-> "get_demand_shape", years |-> years,
                          cluster_labels |-> cluster_labels,
                          path |-> r.path, ret |-> r.ret]
        /\ UNCHANGED <<params, fxe, model>>

NextProfile == GetDemandShapeOfFiles

SpecProfile == InitProfile /\ [][NextProfile]_vars

\* the profile the ordered fallback chain names for a year
ChainOf(fs, y) ==
    LET own == IF fs.dir THEN {f \in fs.profiles : f.country = ISO3} ELSE {}
    IN  IF ProfileFile(ISO3, y) \in own THEN ProfileFile(ISO3, y)
        ELSE IF own # {} THEN CHOOSE f \in own : \A g \in own : f.year <= g.year
        ELSE GenericLoadProfile

LookupErrors == {"FileNotFoundError", "IndexError", "KeyError"}

\* C27: get_demand_shape resolves the load profile of each year by the
\* ordered fallback chain: the exact country+year profile if it exists,
\* otherwise the earliest profile of the country, otherwise the generic
\* default profile.  In every combination of missing files that leaves one
\* of the three, a profile directory without a profile of the country
\* included, that one is used and no lookup error escapes.
C27_ProfileFallbackChain ==
    (/\ result.op = "get_demand_shape"
     /\ \A y \in result.years : read_csv(params, ChainOf(params, y)) = Return(ChainOf(params, y)))
    => /\ \A y \in result.years : result.path[y] = Return(ChainOf(params, y))
       /\ ~(Raises(result.ret) /\ result.ret.exc \in LookupErrors)


\* the share factor resolved for an index lies outside [0, 1]
OutOfRange(i) ==
    /\ ShareStored(i)
    /\ ShareCell(i) # NaN
    /\ (ShareCell(i).v < 0 \/ ShareCell(i).v > 1)

\* C28: a share factor that resolves to a value outside [0, 1] is rejected
\* with a fatal error when the share constraint is generated; no share
\* generator emits a constraint that uses an out-of-range share factor.
C28_OutOfRangeShareRejected ==
    result.op \in ShareOps =>
        \A i \in DOMAIN result.ret :
            OutOfRange(i) => /\ Raises(result.ret[i])
                             /\ result.ret[i].tag # "constraint"


(***************************************************************************)
(* Year indices of the lifecycle constraints.  model.ctot, model.cnew and  *)
(* model.cret are indexed by the modelled years; an index outside them     *)
(* raises KeyError when the rule is called.                                *)
(***************************************************************************)
\* model_generic/generic_constraints.py: the rate is raised to model.YL
\* before it is tested for None
c_cap_growthrate(m, e, y) ==
    IfCapacity(e,
        LET growthrate == get(e, "growthrate", y)
        IN  IF Raises(growthrate) THEN growthrate
            ELSE IF growthrate.value = None THEN Raise("TypeError")
            ELSE IF (y - YEARSLICE) \notin m.Y THEN Raise("KeyError")
            ELSE Constraint(Sum({ctot("CH", e, y)}), "==",
                            Lin({TermOf(ctot("CH", e, y - YEARSLICE),
                                        np_power(growthrate.value, YEARSLICE))}, 0)))

\* conv_a takes every combination of capacity option, enable year (before,
\* at and after the first modelled year), lifetime and growth rate
LifeTable(cap, ey, life, growth) ==
    [configuration |-> Dict([p \in {"enable_capacity", "enable_year"} |->
                                IF p = "enable_capacity" THEN cap ELSE ey]),
     constant      |-> Dict([p \in {"lifetime"} |-> life]),
     constant_fxe  |-> Dict([pf \in EfficiencyParams \X Flows |-> Num(1)]),
     annual        |-> Dict([py \in {"actual_capacity", "initial_retired_capacity",
                                     "growthrate"} \X YEARS |->
                                IF py[1] = "actual_capacity" THEN Num(10)
                                ELSE IF py[1] = "growthrate" THEN growth
                                ELSE Num(py[2] - FirstYear)])]

InitLife ==
    /\ params \in {[e \in Entities |->
                      IF e = "conv_a" THEN LifeTable(cap, ey, life, growth)
                      ELSE IF e = "conv_b" THEN LifeTable(Num(1), Num(FirstYear), Num(1), Num(2))
                      ELSE LifeTable(NaN, NaN, NaN, NaN)] :
                      cap \in {NaN, Num(1)},
                      ey \in {Num(y) : y \in (FirstYear - 1) .. (FirstYear + 1)},
                      life \in {NaN} \cup {Num(l) : l \in 1 .. MaxLife},
                      growth \in {NaN, Num(2)}}
    /\ fxe = BuiltTables
    /\ model = init_model.value
    /\ result = NoCall

LifeCCapTransfer ==
    /\ result' = [op |-> "c_cap_transfer",
                  ret |-> [i \in Nodes \X model.Caps \X model.Y |->
                              c_cap_transfer(model, i[1], i[2], i[3])]]
    /\ UNCHANGED <<params, fxe, model>>

LifeCCapRetirement ==
    /\ result' = [op |-> "c_cap_retirement",
                  ret |-> [i \in Nodes \X model.Caps \X model.Y |->
                              c_cap_retirement(model, i[1], i[2], i[3])]]
    /\ UNCHANGED <<params, fxe, model>>

\* pyo.Constraint(<entities>, model.Y, rule=c_cap_growthrate)
CCapGrowthrate ==
    /\ result' = [op |-> "c_cap_growthrate",
                  ret |-> [i \in Nodes \X model.Caps \X model.Y |->
                              c_cap_growthrate(model, i[2], i[3])]]
    /\ UNCHANGED <<params, fxe, model>>

NextLife == LifeCCapTransfer \/ LifeCCapRetirement \/ CCapGrowthrate

SpecLife == InitLife /\ [][NextLife]_vars

YearIndexOps == {"c_cap_transfer", "c_cap_retirement", "c_cap_growthrate"}

\* C29: every capacity variable a generated lifecycle constraint refers to
\* has its year index inside the modelled years: capacity_total[y - 1] of
\* c_cap_transfer, capacity_new[y - lifetime] of c_cap_retirement and
\* capacity_total[y - YL] of c_cap_growthrate denote modelled years, at the
\* first modelled year and for an entity enabled before it included, so no
\* rule fails on a variable index.
C29_LifecycleYearsModelled ==
    result.op \in YearIndexOps =>
        \A i \in DOMAIN result.ret :
            /\ \A v \in VarsOf(result.ret[i]) : v.y \in model.Y
            /\ result.ret[i] # Raise("KeyError")


(***************************************************************************)
(* Capacity accounting.  model_utils/generic.py carries the total capacity *)
(* from year to year (c_cap_transfer with c_cap_retirement);               *)
(* model_generic/generic_constraints.py states it in closed form.  The     *)
(* closed form reads model.YALL, which the assembler of this tree does not *)
(* declare; the assembler it was written for declares it as the years of   *)
(* the configuration.                                                      *)
(***************************************************************************)
\* model_generic/generic_constraints.py
generic_constraints_c_cap_transfer(m, e, y) ==
    IfCapacity(e,
        LET first == CHOOSE y0 \in m.Y : \A y1 \in m.Y : y0 <= y1      \* model.Y.first()
            initial_capacity == get_annual(e, "actual_capacity", first)
            lifetime == get_const(e, "lifetime")
            retired == [yx \in {yx \in m.YALL : yx <= y} |->
                           get_annual(e, "initial_retired_capacity", yx)]
        IN  IF Raises(initial_capacity) THEN initial_capacity
            ELSE IF Raises(lifetime) THEN lifetime
            ELSE IF lifetime.value = None
            THEN Constraint(Sum({ctot("CH", e, y)}), "==",
                            Lin({Term(cnew("CH", e, yx), 1, 1) : yx \in {yx \in m.Y : yx <= y}},
                                initial_capacity.value.v))
            ELSE LET new_cap == {Term(cnew("CH", e, yx), 1, 1) :
                                    yx \in {yx \in m.Y : yx <= y /\ y - yx < lifetime.value.v}}
                 IN  IF y - first < lifetime.value.v
                     THEN IF "YALL" \notin DOMAIN m THEN Raise("AttributeError")
                          ELSE IF \E yx \in DOMAIN retired : Raises(retired[yx])
                          THEN CHOOSE r \in {retired[yx] : yx \in DOMAIN retired} : Raises(r)
                          ELSE Constraint(Sum({ctot("CH", e, y)}), "==",
                                   Lin(new_cap,
                                       initial_capacity.value.v
                                       - NumOf(SumOf(DOMAIN retired,
                                                     [yx \in DOMAIN retired |->
                                                         retired[yx].value]))))
                     ELSE Constraint(Sum({ctot("CH", e, y)}), "==", Lin(new_cap, 0)))

\* the value of a linear expression when its variables take the values val
ValueOf(lin, val) ==
    Plus(SumOf(lin.terms, [t \in lin.terms |-> Product(Ratio(t.num, t.den), val[t.var])]),
         Num(lin.const))

\* capacity_total of year y by the year-by-year constraints of generic.py,
\* from the capacity init_capacity pins in the first modelled year
RECURSIVE RecursiveTotal(_, _, _, _)
RecursiveTotal(m, e, new, y) ==
    LET first == CHOOSE y0 \in m.Y : \A y1 \in m.Y : y0 <= y1
        built == [v \in {cnew("CH", e, yx) : yx \in m.Y} |-> Num(new[v.y])]
    IN  IF y = first THEN get_annual(e, "actual_capacity", first)
        ELSE LET before == RecursiveTotal(m, e, new, y - 1)
                 transfer == c_cap_transfer(m, "CH", e, y)
                 retirement == c_cap_retirement(m, "CH", e, y)
             IN  IF Raises(before) THEN before
                 ELSE IF transfer.tag # "constraint" THEN transfer
                 ELSE IF retirement.tag # "constraint" THEN retirement
                 ELSE Return(ValueOf(transfer.rhs,
                                [v \in VarsOf(transfer) |->
                                    IF v.name = "cnew" THEN built[v]
                                    ELSE IF v.name = "cret"
                                    THEN ValueOf(retirement.rhs, built)
                                    ELSE before.value]))

\* capacity_total of year y by the closed form of generic_constraints.py
ClosedTotal(m, e, new, y) ==
    LET transfer == generic_constraints_c_cap_transfer(m, e, y)
    IN  IF transfer.tag # "constraint" THEN transfer
        ELSE Return(ValueOf(transfer.rhs,
                            [v \in VarsOf(transfer) |-> Num(new[v.y])]))

\* conv_a has a finite lifetime, a historical capacity and a series of
\* initially retired capacity; the capacity built is 0 in the first year
MaxBuilt == 1
BuiltSeries == {new \in [YEARS -> 0 .. MaxBuilt] : new[FirstYear] = 0}

AccountTable(life, capacity, retired) ==
    [configuration |-> Dict([p \in {"enable_capacity", "enable_year"} |->
                                IF p = "enable_capacity" THEN Num(1) ELSE Num(FirstYear)]),
     constant      |-> Dict([p \in {"lifetime"} |-> Num(life)]),
     constant_fxe  |-> Dict([pf \in EfficiencyParams \X Flows |-> Num(1)]),
     annual        |-> Dict([py \in {"actual_capacity", "initial_retired_capacity"} \X YEARS |->
                                IF py[1] = "actual_capacity" THEN Num(capacity)
                                ELSE Num(retired[py[2]])])]

RetiredSeries ==
    {[y \in YEARS |-> 0], [y \in YEARS |-> 1], [y \in YEARS |-> IF y = FirstYear + 1 THEN 4 ELSE 0]}

InitAccount ==
    /\ params \in {[e \in Entities |->
                      IF e = "conv_a" THEN AccountTable(life, capacity, retired)
                      ELSE AccountTable(1, 10, [y \in YEARS |-> 0])] :
                      life \in 1 .. MaxLife, capacity \in {0, 4, 10},
                      retired \in RetiredSeries}
    /\ fxe = BuiltTables
    /\ model \in UNION {{built, Declare(built, [YALL |-> YEARS])} :
                             built \in {init_model.value}}
    /\ result = NoCall

\* both formulations on the same series of new capacity
CapacityTotal ==
    \E new \in BuiltSeries :
        /\ result' = [op |-> "capacity_total", e |-> "conv_a", cnew |-> new,
                      recursive |-> [y \in model.Y |-> RecursiveTotal(model, "conv_a", new, y)],
                      closed    |-> [y \in model.Y |-> ClosedTotal(model, "conv_a", new, y)]]
        /\ UNCHANGED <<params, fxe, model>>

NextAccount == CapacityTotal

SpecAccount == InitAccount /\ [][NextAccount]_vars

SameNumber(x, y) == NumOf(x) * DenOf(y) = NumOf(y) * DenOf(x)

\* C30: the two capacity-accounting formulations agree.  For an entity with
\* a finite lifetime, capacity_new = 0 in the first modelled year and the
\* same series of new and initially retired capacity, the capacity_total
\* obtained year by year from the transfer and retirement constraints of
\* generic.py equals, in every modelled year, the capacity_total of the
\* closed-form transfer constraint of generic_constraints.py.
C30_CapacityFormulationsAgree ==
    result.op = "capacity_total" =>
        \A y \in model.Y :
            /\ result.recursive[y].tag = "return"
            /\ result.closed[y].tag = "return"
            /\ SameNumber(result.recursive[y].value, result.closed[y].value)

====
